---------------------------- MODULE Spec2Model ----------------------------
(***************************************************************************)
(* Conversational-memory engine of rustclaw.                               *)
(*                                                                         *)
(*   - VectorDb (src/src/vector_db.rs): a relational store of record       *)
(*     (table conversations) and a usearch index keyed by the row          *)
(*     identity, persisted to one file after every insert.                 *)
(*   - LocalEmbedding (src/src/embeddings/local.rs): a lazily loaded       *)
(*     model behind a mutex, unloaded by an idle timer.                    *)
(*                                                                         *)
(* Spec      : concurrent add_turn calls, crash and restart.               *)
(* SpecCtx   : one add_turn writer beside a context request.               *)
(* SpecEmbed : concurrent embed calls and the idle-unload timer.           *)
(* SpecImportant, SpecIndex, SpecContext, SpecSearch : the important       *)
(*             table, index growth, the context text, the search tool.     *)
(* SpecMemory: the file-based MemoryManager (src/src/memory.rs).           *)
(* SpecStream: one streamed response, its add_turn and its cancellation    *)
(*             (src/src/agent/rig_agent.rs, src/src/discord/handler.rs).   *)
(***************************************************************************)
EXTENDS Integers, Sequences, FiniteSets, TLC

\* ------------------------------------------------------------------ bounds
NumCallers == 2
MaxTurns == 3
MaxClock == 1
MaxTopic == 1
MaxCrashes == 1
MaxTopK == 1
MaxN == 2
NumEmbedders == 2
MaxImportantIds == 2
MaxImportantRowid == 3
NumTools == 1
MaxSearchTopK == 3
NumMemCallers == 2
MaxMessages == 1
MaxLongTerm == 2
MaxMessageId == 3
MaxOverflow == 1
MaxItems == 2
MaxTime == 420
TimeStep == 60

\* ------------------------------------------------------- program constants
INITIAL_CAPACITY == 1000
RESERVE_INCREMENT == 1000
FETCH_SLACK == 5
MIN_DEDUP_LEN == 10
IDLE_TIMEOUT == 300
POLL_INTERVAL == 60

Callers == 1..NumCallers
Topics == 0..MaxTopic
Embedders == 1..NumEmbedders
Tools == 1..NumTools

VARIABLES
    proc,        \* "running" | "down" | "start_failed": the process
    epoch,       \* number of crashes so far (the process incarnation)
    now,         \* chrono::Utc::now().timestamp_micros()
    uuid,        \* number of public ids generated so far
    rows,        \* table conversations: set of [rowid, id, vec, timestamp_us]
    index,       \* the in-memory usearch index: set of [key, vec]
    capacity,    \* index.capacity()
    index_file,  \* conversations.usearch: [state, entries]
    lock,        \* holder of the index mutex: 0 (free) or a caller
    call,        \* per caller: the add_turn call in flight (pc and locals)
    outcome,     \* per caller: what its last add_turn returned
    completed,   \* row identities whose add_turn returned Ok
    ctx,         \* the context request in flight (pc, inputs, results)
    model,       \* LocalEmbedding.model: "Unloaded" (None) | "Ready" (Some)
    model_lock,  \* holder of the model mutex: 0 (free) or an embed call
    last_used,   \* LocalEmbedding.last_used
    time,        \* Instant::now(), in seconds
    emb,         \* per embed call: [pc, kind, cold, result]
    timer,       \* the unload task: [pc, wake_at]
    loads,       \* successful model initialisations so far
    unloads,     \* unloads so far
    last_ok,     \* last_used stamp of the last successful embed (-1: none yet)
    important,   \* table important: set of [rowid, id, content, timestamp_us]
    tool,        \* per tool caller: the important-fact or context call in flight
    mem_recent,     \* MemoryManager.recent: the recent messages, oldest first
    mem_long_term,  \* MemoryManager.long_term: the long-term entries
    recent_md,      \* the file recent.md
    memory_md,      \* the file memory.md
    archive,        \* the files under conversations/: set of [name, text]
    recent_lock,    \* the RwLock of recent: [readers, writer]
    long_term_lock, \* the RwLock of long_term: [readers, writer]
    messages,       \* add_message calls so far
    mem,            \* per MemoryManager caller: the call in flight
    task,           \* the agent task: process_streaming and run_stream
    sent,           \* the events run_stream has passed to tx.send, in order
    chan,           \* the events in the channel, not yet received
    rx_open,        \* the Receiver has not been dropped
    handler,        \* Handler::message for the user message: [pc, cancel_msg_id, overflow]
    active_streams, \* Handler.active_streams: set of [msg, requester_id]
    cancelled,      \* StreamControl.cancelled
    abort_called,   \* abort() has been called on the task
    react           \* the last reaction or /cancelall: [user, result], and the
                    \* users whose reaction_add is between its two steps

vdbVars == <<proc, epoch, now, uuid, rows, index, capacity, index_file, lock,
             call, outcome, completed, ctx>>

embVars == <<model, model_lock, last_used, time, emb, timer, loads, unloads, last_ok>>

impVars == <<important, tool>>

memVars == <<mem_recent, mem_long_term, recent_md, memory_md, archive, recent_lock,
             long_term_lock, messages, mem>>

strmVars == <<task, sent, chan, rx_open, handler, active_streams, cancelled,
              abort_called, react>>

vars == <<vdbVars, embVars, impVars, memVars, strmVars>>

\* ------------------------------------------------------------- helpers
Min(a, b) == IF a <= b THEN a ELSE b
Abs(a) == IF a >= 0 THEN a ELSE 0 - a

\* All orderings of the finite set S.
Perms(S) ==
    {s \in [1..Cardinality(S) -> S] : \A i, j \in 1..Cardinality(S) : i # j => s[i] # s[j]}

Reverse(s) == [i \in 1..Len(s) |-> s[Len(s) + 1 - i]]

Truncate(s, n) == SubSeq(s, 1, Min(n, Len(s)))

\* index.size()
Size == Cardinality(index)

Keys(ix) == {e.key : e \in ix}

Rowids == {r.rowid : r \in rows}

\* A variant of NextRowid that numbers rows by the size of the index.
NextRowidFromIndex == Size + 1

\* sqlite assigns the next row identity; rows are never deleted.
NextRowid ==
    IF rows = {} THEN 1 ELSE (CHOOSE m \in Rowids : \A k \in Rowids : k <= m) + 1

IdleCall == [pc |-> "idle", id |-> 0, ts |-> 0, vec |-> 0, rowid |-> 0]

IdleCtx == [pc |-> "idle", n |-> 0, top_k |-> 0, query |-> 0,
            recent |-> <<>>, fetched |-> {}, related |-> <<>>,
            total |-> 0, before |-> {}]

\* ---------------------------------------------------------------- Init
\* VectorDb::new on a fresh data directory: no index file, reserve(1000).
InitVdb ==
    /\ proc = "running"
    /\ epoch = 0
    /\ now = 0
    /\ uuid = 0
    /\ rows = {}
    /\ index = {}
    /\ capacity = INITIAL_CAPACITY
    /\ index_file = [state |-> "absent", entries |-> {}]
    /\ lock = 0
    /\ call = [p \in Callers |-> IdleCall]
    /\ outcome = [p \in Callers |-> [status |-> "none", step |-> "none", rowid |-> 0]]
    /\ completed = {}
    /\ ctx = IdleCtx

\* The wall clock advances.
Tick ==
    /\ now < MaxClock
    /\ now' = now + 1
    /\ UNCHANGED <<proc, epoch, uuid, rows, index, capacity, index_file, lock,
                   call, outcome, completed, ctx>>
    /\ UNCHANGED <<embVars, impVars, memVars, strmVars>>

\* ------------------------------------------------------------- add_turn
NoOutcome == [status |-> "none", step |-> "none", rowid |-> 0]

\* add_turn returns Err from `step`; the `?` operator only returns.
Fail(p, step) ==
    /\ call' = [call EXCEPT ![p] = IdleCall]
    /\ outcome' = [outcome EXCEPT ![p] = [status |-> "err", step |-> step,
                                          rowid |-> call[p].rowid]]

\* A variant of RowsAfterIndexFailure that rolls the insert back.
RowsRolledBack(p) == {r \in rows : r.rowid # call[p].rowid}

\* Lines 106-111: an index step that fails returns through `?`; nothing
\* compensates the insert, so the table is what it was.
RowsAfterIndexFailure(p) == rows

\* A variant of AddTurnStart that hands out the last public id again.
AddTurnStartReusesId(p) ==
    /\ proc = "running"
    /\ call[p].pc = "idle"
    /\ uuid < MaxTurns
    /\ \E topic \in Topics :
         call' = [call EXCEPT ![p] = [pc |-> "embedding", id |-> uuid,
                                      ts |-> now, vec |-> topic, rowid |-> 0]]
    /\ uuid' = uuid + 1
    /\ outcome' = [outcome EXCEPT ![p] = NoOutcome]
    /\ UNCHANGED <<proc, epoch, now, rows, index, capacity, index_file, lock,
                   completed, ctx>>
    /\ UNCHANGED <<embVars, impVars, memVars, strmVars>>

\* Lines 76-82: the public id and the timestamp are taken on entry.
AddTurnStart(p) ==
    /\ proc = "running"
    /\ call[p].pc = "idle"
    /\ uuid < MaxTurns
    /\ \E topic \in Topics :
         call' = [call EXCEPT ![p] = [pc |-> "embedding", id |-> uuid + 1,
                                      ts |-> now, vec |-> topic, rowid |-> 0]]
    /\ uuid' = uuid + 1
    /\ outcome' = [outcome EXCEPT ![p] = NoOutcome]
    /\ UNCHANGED <<proc, epoch, now, rows, index, capacity, index_file, lock,
                   completed, ctx>>
    /\ UNCHANGED <<embVars, impVars, memVars, strmVars>>

\* A variant of AddTurnEmbed that goes on to the insert when the embedding
\* failed.
AddTurnEmbedIgnoresError(p) ==
    /\ proc = "running"
    /\ call[p].pc = "embedding"
    /\ call' = [call EXCEPT ![p].pc = "embedded"]
    /\ \/ UNCHANGED outcome
       \/ outcome' = [outcome EXCEPT ![p] = [status |-> "err", step |-> "embed",
                                             rowid |-> 0]]
    /\ UNCHANGED <<proc, epoch, now, uuid, rows, index, capacity, index_file,
                   lock, completed, ctx>>
    /\ UNCHANGED <<embVars, impVars, memVars, strmVars>>

\* Line 83: embed_passage(combined).await?
AddTurnEmbed(p) ==
    /\ proc = "running"
    /\ call[p].pc = "embedding"
    /\ \/ /\ call' = [call EXCEPT ![p].pc = "embedded"]
          /\ UNCHANGED outcome
       \/ Fail(p, "embed")
    /\ UNCHANGED <<proc, epoch, now, uuid, rows, index, capacity, index_file,
                   lock, completed, ctx>>
    /\ UNCHANGED <<embVars, impVars, memVars, strmVars>>

\* A variant of AddTurnInsert that swallows the insert error and goes on to
\* the index with no row identity.
AddTurnInsertIgnoresError(p) ==
    /\ proc = "running"
    /\ call[p].pc = "embedded"
    /\ \/ /\ rows' = rows \cup {[rowid |-> NextRowid, id |-> call[p].id,
                                 vec |-> call[p].vec, timestamp_us |-> call[p].ts]}
          /\ call' = [call EXCEPT ![p].pc = "inserted", ![p].rowid = NextRowid]
       \/ /\ call' = [call EXCEPT ![p].pc = "inserted"]
          /\ UNCHANGED rows
    /\ UNCHANGED <<proc, epoch, now, uuid, index, capacity, index_file, lock,
                   outcome, completed, ctx>>
    /\ UNCHANGED <<embVars, impVars, memVars, strmVars>>

\* Lines 99-101: connect, insert the record, take last_insert_id; on an
\* error the closure returns before the index is locked.
AddTurnInsert(p) ==
    /\ proc = "running"
    /\ call[p].pc = "embedded"
    /\ \/ /\ rows' = rows \cup {[rowid |-> NextRowid, id |-> call[p].id,
                                 vec |-> call[p].vec, timestamp_us |-> call[p].ts]}
          /\ call' = [call EXCEPT ![p].pc = "inserted", ![p].rowid = NextRowid]
          /\ UNCHANGED outcome
       \/ /\ Fail(p, "insert")
          /\ UNCHANGED rows
    /\ UNCHANGED <<proc, epoch, now, uuid, index, capacity, index_file, lock,
                   completed, ctx>>
    /\ UNCHANGED <<embVars, impVars, memVars, strmVars>>

\* Line 103: index.lock()
AddTurnLock(p) ==
    /\ proc = "running"
    /\ call[p].pc = "inserted"
    /\ lock = 0
    /\ lock' = p
    /\ call' = [call EXCEPT ![p].pc = "locked"]
    /\ UNCHANGED <<proc, epoch, now, uuid, rows, index, capacity, index_file,
                   outcome, completed, ctx>>
    /\ UNCHANGED <<embVars, impVars, memVars, strmVars>>

\* A variant of ReserveTarget that doubles the capacity.
ReserveTargetDoubled == capacity * 2

\* Line 105: the capacity asked of reserve.
ReserveTarget == capacity + RESERVE_INCREMENT

\* Lines 104-107: grow by a fixed increment when within one slot of capacity.
AddTurnReserve(p) ==
    /\ proc = "running"
    /\ call[p].pc = "locked"
    /\ IF Size + 1 >= capacity
         THEN \/ /\ capacity' = ReserveTarget
                 /\ call' = [call EXCEPT ![p].pc = "reserved"]
                 /\ UNCHANGED <<outcome, lock, rows>>
              \/ /\ Fail(p, "reserve")
                 /\ lock' = 0
                 /\ rows' = RowsAfterIndexFailure(p)
                 /\ UNCHANGED capacity
         ELSE /\ call' = [call EXCEPT ![p].pc = "reserved"]
              /\ UNCHANGED <<capacity, outcome, lock, rows>>
    /\ UNCHANGED <<proc, epoch, now, uuid, index, index_file, completed, ctx>>
    /\ UNCHANGED <<embVars, impVars, memVars, strmVars>>

\* A variant of AddTurnAdd in which the add that reports an error has put
\* the key into the index all the same.
AddTurnAddFailsAfterInsert(p) ==
    /\ proc = "running"
    /\ call[p].pc = "reserved"
    /\ \/ /\ call[p].rowid \notin Keys(index)
          /\ Size < capacity
          /\ index' = index \cup {[key |-> call[p].rowid, vec |-> call[p].vec]}
          /\ call' = [call EXCEPT ![p].pc = "added"]
          /\ UNCHANGED <<outcome, lock, rows>>
       \/ /\ Fail(p, "add")
          /\ lock' = 0
          /\ rows' = RowsAfterIndexFailure(p)
          /\ index' = index \cup {[key |-> call[p].rowid, vec |-> call[p].vec]}
    /\ UNCHANGED <<proc, epoch, now, uuid, capacity, index_file, completed, ctx>>
    /\ UNCHANGED <<embVars, impVars, memVars, strmVars>>

\* Lines 108-109: idx.add(rowid, &embedding); usearch refuses a key it holds
\* and an insert beyond capacity.
AddTurnAdd(p) ==
    /\ proc = "running"
    /\ call[p].pc = "reserved"
    /\ \/ /\ call[p].rowid \notin Keys(index)
          /\ Size < capacity
          /\ index' = index \cup {[key |-> call[p].rowid, vec |-> call[p].vec]}
          /\ call' = [call EXCEPT ![p].pc = "added"]
          /\ UNCHANGED <<outcome, lock, rows>>
       \/ /\ Fail(p, "add")
          /\ lock' = 0
          /\ rows' = RowsAfterIndexFailure(p)
          /\ UNCHANGED index
    /\ UNCHANGED <<proc, epoch, now, uuid, capacity, index_file, completed, ctx>>
    /\ UNCHANGED <<embVars, impVars, memVars, strmVars>>

\* Line 110, first half: save opens the index file for writing, in place;
\* from here until the write completes the file holds no loadable snapshot.
AddTurnSaveOpen(p) ==
    /\ proc = "running"
    /\ call[p].pc = "added"
    /\ \/ /\ index_file' = [state |-> "partial", entries |-> {}]
          /\ call' = [call EXCEPT ![p].pc = "saving"]
          /\ UNCHANGED <<outcome, lock, rows>>
       \/ /\ Fail(p, "save")
          /\ lock' = 0
          /\ rows' = RowsAfterIndexFailure(p)
          /\ UNCHANGED index_file
    /\ UNCHANGED <<proc, epoch, now, uuid, index, capacity, completed, ctx>>
    /\ UNCHANGED <<embVars, impVars, memVars, strmVars>>

\* Lines 110-112: the snapshot is written out; Ok(()) and the guard is dropped.
AddTurnSaveWrite(p) ==
    /\ proc = "running"
    /\ call[p].pc = "saving"
    /\ lock' = 0
    /\ \/ /\ index_file' = [state |-> "ok", entries |-> index]
          /\ call' = [call EXCEPT ![p] = IdleCall]
          /\ outcome' = [outcome EXCEPT ![p] = [status |-> "ok", step |-> "none",
                                                rowid |-> call[p].rowid]]
          /\ completed' = completed \cup {call[p].rowid}
          /\ UNCHANGED rows
       \/ /\ Fail(p, "save")
          /\ rows' = RowsAfterIndexFailure(p)
          /\ UNCHANGED <<index_file, completed>>
    /\ UNCHANGED <<proc, epoch, now, uuid, index, capacity, ctx>>
    /\ UNCHANGED <<embVars, impVars, memVars, strmVars>>

\* ------------------------------------------------------ crash and restart
\* The process dies: memory (index, lock, calls in flight) is lost, the
\* database and the index file stay as they are on disk.
Crash ==
    /\ proc = "running"
    /\ epoch < MaxCrashes
    /\ proc' = "down"
    /\ epoch' = epoch + 1
    /\ index' = {}
    /\ capacity' = 0
    /\ lock' = 0
    /\ call' = [p \in Callers |-> IdleCall]
    /\ outcome' = [p \in Callers |-> NoOutcome]
    /\ ctx' = IdleCtx
    /\ UNCHANGED <<now, uuid, rows, index_file, completed>>
    /\ UNCHANGED <<embVars, impVars, memVars, strmVars>>

\* A variant of LoadedCapacity in which a loaded index has no capacity.
LoadedCapacityNone(entries) == 0

\* Lines 50-54: index.load(path) leaves the index with room for exactly the
\* vectors it read.
LoadedCapacity(entries) == Cardinality(entries)

\* Lines 41-57: VectorDb::new loads the index file when it exists (a loaded
\* usearch index has capacity = size), else reserves the initial capacity.
New ==
    /\ proc = "down"
    /\ CASE index_file.state = "absent" ->
              /\ index' = {}
              /\ capacity' = INITIAL_CAPACITY
              /\ proc' = "running"
         [] index_file.state = "ok" ->
              /\ index' = index_file.entries
              /\ capacity' = LoadedCapacity(index_file.entries)
              /\ proc' = "running"
         [] OTHER ->
              /\ proc' = "start_failed"
              /\ UNCHANGED <<index, capacity>>
    /\ UNCHANGED <<epoch, now, uuid, rows, index_file, lock, call, outcome,
                   completed, ctx>>
    /\ UNCHANGED <<embVars, impVars, memVars, strmVars>>

\* ------------------------------------------------------- context requests
\* From<conversations::Model> for ConversationTurn: the row identity is dropped.
ToTurn(r) == [id |-> r.id, timestamp_micros |-> r.timestamp_us]

Ids(s) == {s[i].id : i \in 1..Len(s)}

\* Cosine distance between two embeddings, abstracted to topics on a line.
Distance(a, b) == Abs(a - b)

\* ORDER BY timestamp_us DESC: rows of equal timestamp come in any order.
OrderByDesc(S) ==
    {s \in Perms(S) :
        \A i, j \in 1..Cardinality(S) : i < j => s[i].timestamp_us >= s[j].timestamp_us}

\* A variant of RecentTurns that leaves out the final reverse().
RecentTurnsNewestFirst(n) ==
    {[i \in 1..Min(n, Cardinality(rows)) |-> ToTurn(s[i])] : s \in OrderByDesc(rows)}

\* recent_turns(n): order_by_desc(TimestampUs).limit(n), then reverse().
RecentTurns(n) ==
    {Reverse([i \in 1..Min(n, Cardinality(rows)) |-> ToTurn(s[i])]) : s \in OrderByDesc(rows)}

\* idx.search(&embedding, fetch_n): the fetch_n entries nearest to the query,
\* nearest first; entries at equal distance come in any order.
IndexSearch(q, fetch_n) ==
    {Truncate(s, fetch_n) :
        s \in {t \in Perms(index) :
                 \A i, j \in 1..Cardinality(index) :
                    i < j => Distance(t[i].vec, q) <= Distance(t[j].vec, q)}}

\* A variant of Filter that keeps every row.
FilterNothing(S, exclude) == S

\* .filter(|t| !exclude.contains(&t.id))
Filter(S, exclude) == {r \in S : r.id \notin exclude}

\* A variant of SortByTimestamp that puts the newest turn first.
SortByTimestampDesc(S) ==
    CHOOSE s \in Perms(S) :
        \A i, j \in 1..Cardinality(S) :
            i < j => \/ s[i].timestamp_us > s[j].timestamp_us
                     \/ /\ s[i].timestamp_us = s[j].timestamp_us
                        /\ s[i].rowid < s[j].rowid

\* Lines 162-172: sqlite returns the rows of `rowid IN (...)` by ascending
\* row identity and sort_by is a stable sort, so the turns come out ordered
\* by timestamp and, at equal timestamps, by row identity.
SortByTimestamp(S) ==
    CHOOSE s \in Perms(S) :
        \A i, j \in 1..Cardinality(S) :
            i < j => \/ s[i].timestamp_us < s[j].timestamp_us
                     \/ /\ s[i].timestamp_us = s[j].timestamp_us
                        /\ s[i].rowid < s[j].rowid

\* A variant of FetchN that asks the index for top_k neighbours only.
FetchNTopKOnly(top_k, exclude) == top_k

\* Line 143: the number of neighbours asked of the index.
FetchN(top_k, exclude) == top_k + Cardinality(exclude) + FETCH_SLACK

\* Lines 157-174 of search_turns: resolve the keys to rows, drop the
\* excluded ids, sort by timestamp, truncate to top_k.
ResolveTurns(rowids, top_k, exclude) ==
    IF rowids = {}
      THEN <<>>
      ELSE LET found == {r \in rows : r.rowid \in rowids}
               s == SortByTimestamp(Filter(found, exclude))
           IN  [i \in 1..Min(top_k, Len(s)) |-> ToTurn(s[i])]

\* get_context, step 2: the recency window; the public ids are recorded.
\* `total` and `before` record the table size and the completed calls at
\* the time of the read.
CtxRecent ==
    /\ proc = "running"
    /\ ctx.pc = "idle"
    /\ \E n \in 0..MaxN, top_k \in 1..MaxTopK, q \in Topics :
         \E recent \in RecentTurns(n) :
            ctx' = [pc |-> "recent", n |-> n, top_k |-> top_k, query |-> q,
                    recent |-> recent, fetched |-> {}, related |-> <<>>,
                    total |-> Cardinality(rows), before |-> completed]
    /\ UNCHANGED <<proc, epoch, now, uuid, rows, index, capacity, index_file,
                   lock, call, outcome, completed>>
    /\ UNCHANGED <<embVars, impVars, memVars, strmVars>>

\* get_context, step 3: search_turns(query, top_k, recent ids). The query is
\* embedded (which may fail), the index is searched under its lock and the
\* keys are resolved against the table.
CtxSearch ==
    /\ proc = "running"
    /\ ctx.pc = "recent"
    /\ \/ /\ lock = 0
          /\ \E results \in IndexSearch(ctx.query, FetchN(ctx.top_k, Ids(ctx.recent))) :
               LET rowids == {results[i].key : i \in 1..Len(results)}
               IN  ctx' = [ctx EXCEPT !.pc = "done", !.fetched = rowids,
                                      !.related = ResolveTurns(rowids, ctx.top_k,
                                                               Ids(ctx.recent))]
       \/ ctx' = IdleCtx
    /\ UNCHANGED <<proc, epoch, now, uuid, rows, index, capacity, index_file,
                   lock, call, outcome, completed>>
    /\ UNCHANGED <<embVars, impVars, memVars, strmVars>>

\* get_context returns the assembled sections.
CtxReturn ==
    /\ proc = "running"
    /\ ctx.pc = "done"
    /\ ctx' = IdleCtx
    /\ UNCHANGED <<proc, epoch, now, uuid, rows, index, capacity, index_file,
                   lock, call, outcome, completed>>
    /\ UNCHANGED <<embVars, impVars, memVars, strmVars>>


\* ------------------------------------------------------- important facts
\* Contents are strings over a small alphabet, as sequences of characters.
Whitespace == {" "}

\* char::to_lowercase on the letters of the alphabet.
LowerChar(ch) ==
    CASE ch = "X" -> "x"
      [] ch = "C" -> "c"
      [] OTHER -> ch

\* str::to_lowercase
ToLowercase(s) == [i \in 1..Len(s) |-> LowerChar(s[i])]

\* str::trim: leading and trailing whitespace removed.
Trim(s) ==
    LET inked == {i \in 1..Len(s) : s[i] \notin Whitespace}
    IN  IF inked = {}
          THEN <<>>
          ELSE SubSeq(s, CHOOSE i \in inked : \A j \in inked : i <= j,
                         CHOOSE i \in inked : \A j \in inked : j <= i)

\* str::contains
Contains(s, t) ==
    \E i \in 1..(Len(s) + 1) :
        /\ i + Len(t) - 1 <= Len(s)
        /\ SubSeq(s, i, i + Len(t) - 1) = t

\* memory.rs:120: content.trim().to_lowercase()
Normalize(s) == ToLowercase(Trim(s))

\* memory.rs:130-134: the dedup rule of add_to_long_term on two normalized
\* contents.
IsDuplicate(existing, content_normalized) ==
    \/ existing = content_normalized
    \/ /\ Len(existing) > MIN_DEDUP_LEN
       /\ Len(content_normalized) > MIN_DEDUP_LEN
       /\ \/ Contains(existing, content_normalized)
          \/ Contains(content_normalized, existing)

\* The contents a caller may pass.
CatsAreOk == <<"c", "a", "t", "s", " ", "a", "r", "e", " ", "o", "k">>

ImportantContents ==
    {<<"X">>, <<" ", "x", " ">>, CatsAreOk, <<"C">> \o Tail(CatsAreOk) \o <<"!">>}

\* uuid::Uuid::new_v4().to_string()[..8]: the first eight characters.
ImportantIds == 1..MaxImportantIds

ImportantRowids == {r.rowid : r \in important}

\* sqlite assigns max(rowid) + 1 to a new row of the table.
NextImportantRowid ==
    IF important = {}
      THEN 1
      ELSE (CHOOSE m \in ImportantRowids : \A k \in ImportantRowids : k <= m) + 1

IdleTool == [pc |-> "idle", op |-> "none", id |-> 0, content |-> <<>>, ts |-> 0,
             query |-> 0, top_k |-> 0, exclude |-> {}, fetched |-> {},
             status |-> "none", found |-> FALSE, entries |-> <<>>,
             recent |-> <<>>, related |-> <<>>, text |-> <<>>]

InitImportant ==
    /\ important = {}
    /\ tool = [c \in Tools |-> IdleTool]

\* add_important, lines 180-188: the id and the timestamp are taken and the
\* record is built.
AddImportantCall(c) ==
    /\ proc = "running"
    /\ tool[c].pc = "idle"
    /\ NextImportantRowid <= MaxImportantRowid
    /\ \E content \in ImportantContents, id \in ImportantIds :
         tool' = [tool EXCEPT ![c] = [IdleTool EXCEPT !.pc = "adding", !.op = "add",
                                         !.id = id, !.content = content, !.ts = now]]
    /\ UNCHANGED important
    /\ UNCHANGED <<vdbVars, embVars, memVars, strmVars>>

\* Line 193: important::Entity::insert(record).exec(&db)
ImportantAfterAdd(row) == important \cup {row}

\* add_important, lines 191-199: the insert; the unique constraint on id
\* (entity/important.rs:9) or the connection may fail it.
AddImportantInsert(c) ==
    /\ proc = "running"
    /\ tool[c].pc = "adding"
    /\ \/ /\ \A r \in important : r.id # tool[c].id
          /\ important' = ImportantAfterAdd([rowid |-> NextImportantRowid,
                                             id |-> tool[c].id,
                                             content |-> tool[c].content,
                                             timestamp_us |-> tool[c].ts])
          /\ tool' = [tool EXCEPT ![c].pc = "idle", ![c].status = "ok"]
       \/ /\ tool' = [tool EXCEPT ![c].pc = "idle", ![c].status = "err"]
          /\ UNCHANGED important
    /\ UNCHANGED <<vdbVars, embVars, memVars, strmVars>>

\* delete_important is called with an id.
DeleteImportantCall(c) ==
    /\ proc = "running"
    /\ tool[c].pc = "idle"
    /\ \E id \in ImportantIds :
         tool' = [tool EXCEPT ![c] = [IdleTool EXCEPT !.pc = "deleting",
                                         !.op = "delete", !.id = id]]
    /\ UNCHANGED important
    /\ UNCHANGED <<vdbVars, embVars, memVars, strmVars>>

\* A variant of Affected that reports a deletion whatever the table held.
AffectedAlways(id) == 1

\* result.rows_affected of DELETE FROM important WHERE id = ?
Affected(id) == Cardinality({r \in important : r.id = id})

\* delete_important, lines 220-230: delete_many().filter(id = ?), then
\* Ok(affected > 0); a connection failure returns Err.
DeleteImportantExec(c) ==
    /\ proc = "running"
    /\ tool[c].pc = "deleting"
    /\ \/ /\ important' = {r \in important : r.id # tool[c].id}
          /\ tool' = [tool EXCEPT ![c].pc = "idle", ![c].status = "ok",
                                   ![c].found = (Affected(tool[c].id) > 0)]
       \/ /\ tool' = [tool EXCEPT ![c].pc = "idle", ![c].status = "err"]
          /\ UNCHANGED important
    /\ UNCHANGED <<vdbVars, embVars, memVars, strmVars>>

\* From<important::Model> for ImportantEntry: the row identity is dropped.
ToEntry(r) == [id |-> r.id, content |-> r.content, timestamp_micros |-> r.timestamp_us]

\* ORDER BY timestamp_us ASC: rows of equal timestamp come in any order.
OrderByAsc(S) ==
    {s \in Perms(S) :
        \A i, j \in 1..Cardinality(S) : i < j => s[i].timestamp_us <= s[j].timestamp_us}

\* list_important: every row, ordered by timestamp ascending.
ListImportant ==
    {[i \in 1..Cardinality(important) |-> ToEntry(s[i])] : s \in OrderByAsc(important)}

IMPORTANT_HEADER == "# Important Facts\n\n"

\* format!("- {}\n", entry.content), for each entry in order.
RECURSIVE Bullets(_)
Bullets(entries) ==
    IF entries = <<>>
      THEN <<>>
      ELSE <<"- ">> \o Head(entries).content \o <<"\n">> \o Bullets(Tail(entries))

\* A variant of GetImportantContext without the is_empty() test.
GetImportantContextAlwaysHeader(entries) == <<IMPORTANT_HEADER>> \o Bullets(entries)

\* get_important_context, lines 235-243: the empty string when there are no
\* entries, else the header and one bullet line per entry.
GetImportantContext(entries) ==
    IF entries = <<>> THEN <<>> ELSE <<IMPORTANT_HEADER>> \o Bullets(entries)

RECENT_HEADER == "# Recent Conversations\n\n"

RELATED_HEADER == "# Related Past Conversations\n\n"

\* ConversationTurn::format_for_context: "{author}: {input}\nAssistant: {response}"
FormatForContext(t) == <<ToString(t.id), ": ", "\n", "Assistant: ", "\n">>

RECURSIVE Blocks(_)
Blocks(turns) ==
    IF turns = <<>> THEN <<>> ELSE FormatForContext(Head(turns)) \o Blocks(Tail(turns))

\* A section of turns: omitted when there are none.
TurnSection(header, turns) ==
    IF turns = <<>> THEN <<>> ELSE <<header>> \o Blocks(turns)

\* get_context: the three sections in their fixed order.
AssembleContext(entries, recent, related) ==
    GetImportantContext(entries)
        \o TurnSection(RECENT_HEADER, recent)
        \o TurnSection(RELATED_HEADER, related)

\* get_context(query): list_important, recent_turns(n), search_turns(query,
\* top_k, recent ids), then the assembly. The three reads are taken in one
\* step here; their interleaving with add_turn is CtxRecent and CtxSearch.
GetContext(c) ==
    /\ proc = "running"
    /\ tool[c].pc = "idle"
    /\ lock = 0
    /\ \E n \in 0..MaxN, top_k \in 1..MaxTopK, q \in Topics :
         \E entries \in ListImportant, recent \in RecentTurns(n) :
            \E results \in IndexSearch(q, FetchN(top_k, Ids(recent))) :
               LET rowids == {results[i].key : i \in 1..Len(results)}
                   related == ResolveTurns(rowids, top_k, Ids(recent))
               IN  tool' = [tool EXCEPT ![c] =
                              [IdleTool EXCEPT !.op = "context", !.status = "ok",
                                               !.entries = entries,
                                               !.recent = recent,
                                               !.related = related,
                                               !.text = AssembleContext(entries, recent,
                                                                        related)]]
    /\ UNCHANGED important
    /\ UNCHANGED <<vdbVars, embVars, memVars, strmVars>>

\* ImportantList::call (tools/important.rs:90-95): list_important().
ListImportantCall(c) ==
    /\ proc = "running"
    /\ tool[c].pc = "idle"
    /\ \/ \E entries \in ListImportant :
            tool' = [tool EXCEPT ![c] = [IdleTool EXCEPT !.op = "list", !.status = "ok",
                                                         !.entries = entries]]
       \/ tool' = [tool EXCEPT ![c] = [IdleTool EXCEPT !.op = "list", !.status = "err"]]
    /\ UNCHANGED important
    /\ UNCHANGED <<vdbVars, embVars, memVars, strmVars>>

\* The value the index mutex holds while tool caller c owns it.
ToolLock(c) == NumCallers + c

\* SearchMemory::call (tools/search_memory.rs:55-62): search_turns(query,
\* top_k, &[]); line 142 embeds the query, which may fail.
SearchMemoryCall(c) ==
    /\ proc = "running"
    /\ tool[c].pc = "idle"
    /\ \/ \E q \in Topics, top_k \in 1..MaxTopK :
            tool' = [tool EXCEPT ![c] = [IdleTool EXCEPT !.pc = "searching",
                                                         !.op = "search",
                                                         !.query = q, !.top_k = top_k]]
       \/ tool' = [tool EXCEPT ![c] = [IdleTool EXCEPT !.op = "search", !.status = "err"]]
    /\ UNCHANGED important
    /\ UNCHANGED <<vdbVars, embVars, memVars, strmVars>>

\* search_turns(query, top_k, exclude_ids) with any arguments (lines
\* 136-144); line 142 embeds the query, which may fail.
SearchTurnsCall(c) ==
    /\ proc = "running"
    /\ tool[c].pc = "idle"
    /\ \/ \E q \in Topics, top_k \in 0..MaxSearchTopK, exclude \in SUBSET (1..MaxTurns) :
            tool' = [tool EXCEPT ![c] = [IdleTool EXCEPT !.pc = "searching",
                                                         !.op = "search",
                                                         !.query = q, !.top_k = top_k,
                                                         !.exclude = exclude]]
       \/ tool' = [tool EXCEPT ![c] = [IdleTool EXCEPT !.op = "search", !.status = "err"]]
    /\ UNCHANGED important
    /\ UNCHANGED <<vdbVars, embVars, memVars, strmVars>>

\* A variant of SearchLock that does not wait for the mutex.
SearchLockNoWait(c) ==
    /\ proc = "running"
    /\ tool[c].pc = "searching"
    /\ lock' = ToolLock(c)
    /\ tool' = [tool EXCEPT ![c].pc = "search_locked"]
    /\ UNCHANGED <<proc, epoch, now, uuid, rows, index, capacity, index_file,
                   call, outcome, completed, ctx>>
    /\ UNCHANGED important
    /\ UNCHANGED <<embVars, memVars, strmVars>>

\* search_turns, line 152: index.lock()
SearchLock(c) ==
    /\ proc = "running"
    /\ tool[c].pc = "searching"
    /\ lock = 0
    /\ lock' = ToolLock(c)
    /\ tool' = [tool EXCEPT ![c].pc = "search_locked"]
    /\ UNCHANGED <<proc, epoch, now, uuid, rows, index, capacity, index_file,
                   call, outcome, completed, ctx>>
    /\ UNCHANGED important
    /\ UNCHANGED <<embVars, memVars, strmVars>>

\* search_turns, lines 153-157: idx.search under the lock; the guard is
\* dropped at the end of the block, also when the search fails.
SearchIndex(c) ==
    /\ proc = "running"
    /\ tool[c].pc = "search_locked"
    /\ lock' = 0
    /\ \/ \E results \in IndexSearch(tool[c].query, FetchN(tool[c].top_k, tool[c].exclude)) :
            tool' = [tool EXCEPT ![c].pc = "resolving",
                                 ![c].fetched = {results[i].key : i \in 1..Len(results)}]
       \/ tool' = [tool EXCEPT ![c] = [IdleTool EXCEPT !.op = "search", !.status = "err"]]
    /\ UNCHANGED <<proc, epoch, now, uuid, rows, index, capacity, index_file,
                   call, outcome, completed, ctx>>
    /\ UNCHANGED important
    /\ UNCHANGED <<embVars, memVars, strmVars>>

\* search_turns, lines 158-174: the keys are resolved against the table.
SearchResolve(c) ==
    /\ proc = "running"
    /\ tool[c].pc = "resolving"
    /\ \/ tool' = [tool EXCEPT ![c] =
                     [IdleTool EXCEPT !.op = "search", !.status = "ok",
                                      !.related = ResolveTurns(tool[c].fetched,
                                                               tool[c].top_k,
                                                               tool[c].exclude)]]
       \/ tool' = [tool EXCEPT ![c] = [IdleTool EXCEPT !.op = "search", !.status = "err"]]
    /\ UNCHANGED important
    /\ UNCHANGED <<vdbVars, embVars, memVars, strmVars>>

\* VectorDb::new over a data directory that holds two turns, both indexed
\* and saved: the index is loaded from its file.
StoredRows ==
    {[rowid |-> 1, id |-> 1, vec |-> 0, timestamp_us |-> 0],
     [rowid |-> 2, id |-> 2, vec |-> MaxTopic, timestamp_us |-> 0]}

StoredIndex == {[key |-> r.rowid, vec |-> r.vec] : r \in StoredRows}

InitStored ==
    /\ proc = "running"
    /\ epoch = 0
    /\ now = 0
    /\ uuid = Cardinality(StoredRows)
    /\ rows = StoredRows
    /\ index = StoredIndex
    /\ capacity = LoadedCapacity(StoredIndex)
    /\ index_file = [state |-> "ok", entries |-> StoredIndex]
    /\ lock = 0
    /\ call = [p \in Callers |-> IdleCall]
    /\ outcome = [p \in Callers |-> [status |-> "none", step |-> "none", rowid |-> 0]]
    /\ completed = {r.rowid : r \in StoredRows}
    /\ ctx = IdleCtx

\* ------------------------------------------------- file-based MemoryManager
\* src/src/memory.rs: the recent messages and the long-term entries, each
\* behind a tokio RwLock, persisted to recent.md and memory.md, with
\* archives under conversations/.
MAX_RECENT_MESSAGES == 200

MAX_LONG_TERM_ENTRIES == 100

MemCallers == 1..NumMemCallers

\* The messages a full recent list holds, oldest first.
FullRecent == [i \in 1..MAX_RECENT_MESSAGES |-> ToString(i)]

Range(s) == {s[i] : i \in 1..Len(s)}

FreeLock == [readers |-> {}, writer |-> 0]

\* RwLock::read() returns while no writer holds the lock.
CanRead(l) == l.writer = 0

\* RwLock::write() returns while nobody holds the lock.
CanWrite(l) == l.writer = 0 /\ l.readers = {}

ReadLocked(l, m) == [l EXCEPT !.readers = @ \cup {m}]

WriteLocked(l, m) == [l EXCEPT !.writer = m]

\* The guards of call m are dropped.
Released(l, m) ==
    [readers |-> l.readers \ {m}, writer |-> IF l.writer = m THEN 0 ELSE l.writer]

IdleMem == [pc |-> "idle", op |-> "none", status |-> "none", content |-> <<>>,
            drained |-> <<>>, before |-> <<>>, text |-> <<>>]

\* MemoryManager::new over an empty data directory.
InitMem ==
    /\ mem_recent = <<>>
    /\ mem_long_term = <<>>
    /\ recent_md = <<>>
    /\ memory_md = <<>>
    /\ archive = {}
    /\ recent_lock = FreeLock
    /\ long_term_lock = FreeLock
    /\ messages = 0
    /\ mem = [m \in MemCallers |-> IdleMem]

\* messages.join("\n") and recent.join("\n")
JoinLines(s) ==
    [i \in 1..(IF s = <<>> THEN 0 ELSE 2 * Len(s) - 1) |->
        IF i % 2 = 1 THEN s[(i + 1) \div 2] ELSE "\n"]

\* entries.join("\n\n"): each entry is a sequence of characters.
RECURSIVE JoinEntries(_)
JoinEntries(entries) ==
    IF entries = <<>> THEN <<>>
    ELSE IF Len(entries) = 1 THEN entries[1]
    ELSE entries[1] \o <<"\n\n">> \o JoinEntries(Tail(entries))

\* MemoryManager::new over a data directory whose recent.md holds as many
\* lines as the recent list may keep.
InitMemFull ==
    /\ mem_recent = FullRecent
    /\ mem_long_term = <<>>
    /\ recent_md = JoinLines(FullRecent)
    /\ memory_md = <<>>
    /\ archive = {}
    /\ recent_lock = FreeLock
    /\ long_term_lock = FreeLock
    /\ messages = 0
    /\ mem = [m \in MemCallers |-> IdleMem]

\* The call of m returns: its guards are dropped.
MemReturn(m, status) ==
    /\ mem' = [mem EXCEPT ![m] = [IdleMem EXCEPT !.op = mem[m].op, !.status = status]]
    /\ recent_lock' = Released(recent_lock, m)
    /\ long_term_lock' = Released(long_term_lock, m)

\* archive_messages, lines 168-174: the file is named by the second of the
\* clock and fs::write replaces a file of that name.
WriteArchive(msgs) ==
    {a \in archive : a.name # now} \cup {[name |-> now, text |-> JoinLines(msgs)]}

\* The messages some archive file holds.
Archived == UNION {Range(a.text) : a \in archive} \ {"\n"}

\* add_message, line 49: recent.write().await
AddMessageLock(m) ==
    /\ mem[m].pc = "idle"
    /\ messages < MaxMessages
    /\ CanWrite(recent_lock)
    /\ recent_lock' = WriteLocked(recent_lock, m)
    /\ messages' = messages + 1
    /\ mem' = [mem EXCEPT ![m] =
                 [IdleMem EXCEPT !.pc = "am_locked", !.op = "add_message",
                                 !.content = <<ToString(MAX_RECENT_MESSAGES + messages + 1)>>,
                                 !.before = mem_recent]]
    /\ UNCHANGED <<mem_recent, mem_long_term, recent_md, memory_md, archive,
                   long_term_lock>>
    /\ UNCHANGED <<vdbVars, embVars, impVars, strmVars>>

\* add_message, lines 50-55: push, and drain the overflow out of the list.
AddMessagePush(m) ==
    /\ mem[m].pc = "am_locked"
    /\ LET pushed == mem_recent \o mem[m].content
           overflow == Len(pushed) - MAX_RECENT_MESSAGES
       IN  IF Len(pushed) > MAX_RECENT_MESSAGES
             THEN /\ mem_recent' = SubSeq(pushed, overflow + 1, Len(pushed))
                  /\ mem' = [mem EXCEPT ![m].pc = "am_archiving",
                                        ![m].drained = SubSeq(pushed, 1, overflow)]
             ELSE /\ mem_recent' = pushed
                  /\ mem' = [mem EXCEPT ![m].pc = "am_saving"]
    /\ UNCHANGED <<mem_long_term, recent_md, memory_md, archive, recent_lock,
                   long_term_lock, messages>>
    /\ UNCHANGED <<vdbVars, embVars, impVars, strmVars>>

\* add_message, line 56: archive_messages(&drained).await?
AddMessageArchive(m) ==
    /\ mem[m].pc = "am_archiving"
    /\ \/ /\ archive' = WriteArchive(mem[m].drained)
          /\ mem' = [mem EXCEPT ![m].pc = "am_saving"]
          /\ UNCHANGED <<recent_lock, long_term_lock>>
       \/ /\ MemReturn(m, "err")
          /\ UNCHANGED archive
    /\ UNCHANGED <<mem_recent, mem_long_term, recent_md, memory_md, messages>>
    /\ UNCHANGED <<vdbVars, embVars, impVars, strmVars>>

\* add_message, lines 60-62: save_recent(&recent).await?; Ok(())
AddMessageSave(m) ==
    /\ mem[m].pc = "am_saving"
    /\ \/ /\ recent_md' = JoinLines(mem_recent)
          /\ MemReturn(m, "ok")
       \/ /\ MemReturn(m, "err")
          /\ UNCHANGED recent_md
    /\ UNCHANGED <<mem_recent, mem_long_term, memory_md, archive, messages>>
    /\ UNCHANGED <<vdbVars, embVars, impVars, strmVars>>

\* format!("- {}\n") for each long-term entry.
RECURSIVE EntryBullets(_)
EntryBullets(entries) ==
    IF entries = <<>> THEN <<>>
    ELSE <<"- ">> \o Head(entries) \o <<"\n">> \o EntryBullets(Tail(entries))

\* get_context, lines 73-90: the two sections, each only when its list has
\* something in it.
MemoryContext(rec, lt) ==
    (IF lt # <<>>
       THEN <<"# Long-term Memory\n\n">> \o EntryBullets(lt) \o <<"\n">>
       ELSE <<>>)
    \o (IF rec # <<>>
          THEN <<"# Recent Conversations\n\n">> \o JoinLines(rec)
          ELSE <<>>)

\* get_context, line 70: recent.read().await
GetContextRecentRead(m) ==
    /\ mem[m].pc = "idle"
    /\ CanRead(recent_lock)
    /\ recent_lock' = ReadLocked(recent_lock, m)
    /\ mem' = [mem EXCEPT ![m] = [IdleMem EXCEPT !.pc = "gc_recent",
                                                 !.op = "get_context"]]
    /\ UNCHANGED <<mem_recent, mem_long_term, recent_md, memory_md, archive,
                   long_term_lock, messages>>
    /\ UNCHANGED <<vdbVars, embVars, impVars, strmVars>>

\* get_context, line 71: long_term.read().await, the recent guard in hand.
GetContextLongTermRead(m) ==
    /\ mem[m].pc = "gc_recent"
    /\ CanRead(long_term_lock)
    /\ long_term_lock' = ReadLocked(long_term_lock, m)
    /\ mem' = [mem EXCEPT ![m].pc = "gc_both"]
    /\ UNCHANGED <<mem_recent, mem_long_term, recent_md, memory_md, archive,
                   recent_lock, messages>>
    /\ UNCHANGED <<vdbVars, embVars, impVars, strmVars>>

\* get_context, lines 73-91: the context is built and returned.
GetContextReturn(m) ==
    /\ mem[m].pc = "gc_both"
    /\ mem' = [mem EXCEPT ![m] =
                 [IdleMem EXCEPT !.op = "get_context", !.status = "ok",
                                 !.text = MemoryContext(mem_recent, mem_long_term)]]
    /\ recent_lock' = Released(recent_lock, m)
    /\ long_term_lock' = Released(long_term_lock, m)
    /\ UNCHANGED <<mem_recent, mem_long_term, recent_md, memory_md, archive, messages>>
    /\ UNCHANGED <<vdbVars, embVars, impVars, strmVars>>

\* format!("[{}] {}", timestamp, text.trim())
FormatEntry(text) == <<"[", ToString(now), "]", " ">> \o Trim(text)

\* The summaries compress_memory is called with.
Summaries == {<<"s", "u", "m">>}

\* Lines 105-108 and 143-145: entries beyond MAX_LONG_TERM_ENTRIES go, oldest
\* first.
TrimLongTerm(lt) ==
    IF Len(lt) > MAX_LONG_TERM_ENTRIES
      THEN SubSeq(lt, Len(lt) - MAX_LONG_TERM_ENTRIES + 1, Len(lt))
      ELSE lt

\* compress_memory, line 94: long_term.write().await
CompressLockLongTerm(m) ==
    /\ mem[m].pc = "idle"
    /\ Len(mem_long_term) < MaxLongTerm
    /\ CanWrite(long_term_lock)
    /\ long_term_lock' = WriteLocked(long_term_lock, m)
    /\ \E summary \in Summaries :
         mem' = [mem EXCEPT ![m] = [IdleMem EXCEPT !.pc = "cm_long_term",
                                                   !.op = "compress_memory",
                                                   !.content = summary]]
    /\ UNCHANGED <<mem_recent, mem_long_term, recent_md, memory_md, archive,
                   recent_lock, messages>>
    /\ UNCHANGED <<vdbVars, embVars, impVars, strmVars>>

\* compress_memory, line 95: recent.write().await, the long_term guard in hand.
CompressLockRecent(m) ==
    /\ mem[m].pc = "cm_long_term"
    /\ CanWrite(recent_lock)
    /\ recent_lock' = WriteLocked(recent_lock, m)
    /\ mem' = [mem EXCEPT ![m].pc = "cm_locked", ![m].before = mem_recent]
    /\ UNCHANGED <<mem_recent, mem_long_term, recent_md, memory_md, archive,
                   long_term_lock, messages>>
    /\ UNCHANGED <<vdbVars, embVars, impVars, strmVars>>

\* compress_memory, line 97: archive_messages(&recent).await?; an empty list
\* writes no file.
CompressArchive(m) ==
    /\ mem[m].pc = "cm_locked"
    /\ \/ /\ archive' = (IF mem_recent = <<>> THEN archive ELSE WriteArchive(mem_recent))
          /\ mem' = [mem EXCEPT ![m].pc = "cm_archived"]
          /\ UNCHANGED <<recent_lock, long_term_lock>>
       \/ /\ mem_recent # <<>>
          /\ MemReturn(m, "err")
          /\ UNCHANGED archive
    /\ UNCHANGED <<mem_recent, mem_long_term, recent_md, memory_md, messages>>
    /\ UNCHANGED <<vdbVars, embVars, impVars, strmVars>>

\* compress_memory, lines 99-110: the summary is pushed, the list trimmed
\* and saved.
CompressSaveLongTerm(m) ==
    /\ mem[m].pc = "cm_archived"
    /\ mem_long_term' = TrimLongTerm(Append(mem_long_term, FormatEntry(mem[m].content)))
    /\ \/ /\ memory_md' = JoinEntries(mem_long_term')
          /\ mem' = [mem EXCEPT ![m].pc = "cm_saved"]
          /\ UNCHANGED <<recent_lock, long_term_lock>>
       \/ /\ MemReturn(m, "err")
          /\ UNCHANGED memory_md
    /\ UNCHANGED <<mem_recent, recent_md, archive, messages>>
    /\ UNCHANGED <<vdbVars, embVars, impVars, strmVars>>

\* compress_memory, lines 112-114: recent.clear(); save_recent; Ok(())
CompressSaveRecent(m) ==
    /\ mem[m].pc = "cm_saved"
    /\ mem_recent' = <<>>
    /\ \/ /\ recent_md' = JoinLines(<<>>)
          /\ MemReturn(m, "ok")
       \/ /\ MemReturn(m, "err")
          /\ UNCHANGED recent_md
    /\ UNCHANGED <<mem_long_term, memory_md, archive, messages>>
    /\ UNCHANGED <<vdbVars, embVars, impVars, strmVars>>

\* Lines 123-128: the text of an entry after its first ']', trimmed and
\* lowercased; the whole entry when it has no ']'.
ExistingOf(entry) ==
    LET close == {i \in 1..Len(entry) : entry[i] = "]"}
    IN  IF close = {}
          THEN Normalize(entry)
          ELSE Normalize(SubSeq(entry, (CHOOSE i \in close : \A j \in close : i <= j) + 1,
                                Len(entry)))

\* Lines 122-135: long_term.iter().any(...)
AnyDuplicate(lt, content) ==
    \E i \in 1..Len(lt) : IsDuplicate(ExistingOf(lt[i]), Normalize(content))

\* A variant of LongTermOnDuplicate that stores the duplicate again under a
\* new timestamp.
LongTermOnDuplicateRefreshed(lt, content) == Append(lt, FormatEntry(content))

\* Lines 137-140: a duplicate returns before the push.
LongTermOnDuplicate(lt, content) == lt

\* The contents add_to_long_term is called with.
LongTermContents == ImportantContents \cup {<<"a", "]", "X">>}

\* add_to_long_term, line 118: long_term.write().await
AddToLongTermLock(m) ==
    /\ mem[m].pc = "idle"
    /\ CanWrite(long_term_lock)
    /\ long_term_lock' = WriteLocked(long_term_lock, m)
    /\ \E content \in LongTermContents :
         /\ Len(mem_long_term) < MaxLongTerm \/ AnyDuplicate(mem_long_term, content)
         /\ mem' = [mem EXCEPT ![m] = [IdleMem EXCEPT !.pc = "lt_locked",
                                                      !.op = "add_to_long_term",
                                                      !.content = content]]
    /\ UNCHANGED <<mem_recent, mem_long_term, recent_md, memory_md, archive,
                   recent_lock, messages>>
    /\ UNCHANGED <<vdbVars, embVars, impVars, strmVars>>

\* add_to_long_term, lines 120-149: a duplicate is skipped with Ok(()); any
\* other content is pushed under a timestamp, the list trimmed and saved.
AddToLongTermExec(m) ==
    /\ mem[m].pc = "lt_locked"
    /\ IF AnyDuplicate(mem_long_term, mem[m].content)
         THEN /\ mem_long_term' = LongTermOnDuplicate(mem_long_term, mem[m].content)
              /\ memory_md' = (IF mem_long_term' = mem_long_term
                                 THEN memory_md
                                 ELSE JoinEntries(mem_long_term'))
              /\ MemReturn(m, "ok")
         ELSE /\ mem_long_term' =
                    TrimLongTerm(Append(mem_long_term, FormatEntry(mem[m].content)))
              /\ \/ /\ memory_md' = JoinEntries(mem_long_term')
                    /\ MemReturn(m, "ok")
                 \/ /\ MemReturn(m, "err")
                    /\ UNCHANGED memory_md
    /\ UNCHANGED <<mem_recent, recent_md, archive, messages>>
    /\ UNCHANGED <<vdbVars, embVars, impVars, strmVars>>

\* flush, line 153: recent.read().await
FlushRecentRead(m) ==
    /\ mem[m].pc = "idle"
    /\ CanRead(recent_lock)
    /\ recent_lock' = ReadLocked(recent_lock, m)
    /\ mem' = [mem EXCEPT ![m] = [IdleMem EXCEPT !.pc = "fl_recent", !.op = "flush"]]
    /\ UNCHANGED <<mem_recent, mem_long_term, recent_md, memory_md, archive,
                   long_term_lock, messages>>
    /\ UNCHANGED <<vdbVars, embVars, impVars, strmVars>>

\* flush, line 154: save_recent(&recent).await?
FlushSaveRecent(m) ==
    /\ mem[m].pc = "fl_recent"
    /\ \/ /\ recent_md' = JoinLines(mem_recent)
          /\ mem' = [mem EXCEPT ![m].pc = "fl_saved"]
          /\ UNCHANGED <<recent_lock, long_term_lock>>
       \/ /\ MemReturn(m, "err")
          /\ UNCHANGED recent_md
    /\ UNCHANGED <<mem_recent, mem_long_term, memory_md, archive, messages>>
    /\ UNCHANGED <<vdbVars, embVars, impVars, strmVars>>

\* flush, line 156: long_term.read().await, the recent guard in hand.
FlushLongTermRead(m) ==
    /\ mem[m].pc = "fl_saved"
    /\ CanRead(long_term_lock)
    /\ long_term_lock' = ReadLocked(long_term_lock, m)
    /\ mem' = [mem EXCEPT ![m].pc = "fl_both"]
    /\ UNCHANGED <<mem_recent, mem_long_term, recent_md, memory_md, archive,
                   recent_lock, messages>>
    /\ UNCHANGED <<vdbVars, embVars, impVars, strmVars>>

\* flush, lines 157-160: save_long_term(&long_term).await?; Ok(())
FlushSaveLongTerm(m) ==
    /\ mem[m].pc = "fl_both"
    /\ \/ /\ memory_md' = JoinEntries(mem_long_term)
          /\ MemReturn(m, "ok")
       \/ /\ MemReturn(m, "err")
          /\ UNCHANGED memory_md
    /\ UNCHANGED <<mem_recent, mem_long_term, recent_md, archive, messages>>
    /\ UNCHANGED <<vdbVars, embVars, impVars, strmVars>>

\* ------------------------------------------------ response streams
\* src/src/agent/rig_agent.rs (process_streaming, run_stream) and
\* src/src/discord/handler.rs, relay.rs (message, reaction_add,
\* interaction_create, move_cancel_emoji): one user message, the agent task
\* it spawns, the channel between them and the cancel reactions.
Users == {"bot", "requester", "owner", "other"}

MessageIds == 1..MaxMessageId

\* The texts of the stream items.
Deltas == {<<"a">>}

FinalTexts == {<<>>, <<"a">>, <<"a", "b">>, <<"b">>}

TextDelta(text) == [type |-> "TextDelta", text |-> text]

NoTask == [pc |-> "none", items |-> 0, response_text |-> <<>>, stream_result |-> "none"]

NoHandler == [pc |-> "idle", cancel_msg_id |-> 0, overflow |-> 0]

InitStream ==
    /\ task = NoTask
    /\ sent = <<>>
    /\ chan = <<>>
    /\ rx_open = TRUE
    /\ handler = NoHandler
    /\ active_streams = {}
    /\ cancelled = FALSE
    /\ abort_called = FALSE
    /\ react = [user |-> "none", result |-> "none", cancelling |-> {}]

\* The Sender lives in run_stream: from the spawn until run_stream returns
\* or the task is dropped.
TxOpen == task.pc \in {"context", "streaming"}

\* let _ = tx.send(event).await, for each event in turn: a send on a channel
\* whose Receiver is gone fails and the error is dropped.
SendAll(events) ==
    /\ sent' = sent \o events
    /\ chan' = IF rx_open THEN chan \o events ELSE chan

\* Handler::message, lines 300-345: the checks pass and the agent task is
\* spawned with the Sender.
HandlerMessage ==
    /\ handler.pc = "idle"
    /\ handler' = [handler EXCEPT !.pc = "spawned"]
    /\ task' = [NoTask EXCEPT !.pc = "context"]
    /\ UNCHANGED <<sent, chan, rx_open, active_streams, cancelled, abort_called, react>>
    /\ UNCHANGED <<vdbVars, embVars, impVars, memVars>>

\* Lines 349-356: the placeholder reply; when it fails the task is aborted
\* and message returns, dropping the Receiver.
HandlerReply ==
    /\ handler.pc = "spawned"
    /\ \/ /\ handler' = [handler EXCEPT !.pc = "replied", !.cancel_msg_id = 1]
          /\ UNCHANGED <<abort_called, rx_open, chan>>
       \/ /\ handler' = [handler EXCEPT !.pc = "done"]
          /\ abort_called' = TRUE
          /\ rx_open' = FALSE
          /\ chan' = <<>>
    /\ UNCHANGED <<task, sent, active_streams, cancelled, react>>
    /\ UNCHANGED <<vdbVars, embVars, impVars, memVars>>

\* Lines 359-371: the stream is registered under the id of the reply.
HandlerRegister ==
    /\ handler.pc = "replied"
    /\ active_streams' = active_streams \cup
                            {[msg |-> handler.cancel_msg_id, requester_id |-> "requester"]}
    /\ handler' = [handler EXCEPT !.pc = "looping"]
    /\ UNCHANGED <<task, sent, chan, rx_open, cancelled, abort_called, react>>
    /\ UNCHANGED <<vdbVars, embVars, impVars, memVars>>

\* StreamRelay::move_cancel_emoji, lines 95-99: under the lock the entry, if
\* it is still there, moves to the id of the new message.
MovedCancelEmoji(streams, old, new) ==
    IF \E e \in streams : e.msg = old
      THEN {e \in streams : e.msg # old}
              \cup {[e EXCEPT !.msg = new] : e \in {x \in streams : x.msg = old}}
      ELSE streams

\* run_stream_loop, lines 225-243: one receive. A TextDelta goes to
\* push_delta, which may open an overflow message and move the cancel
\* emoji; Done, Error and a closed channel end the loop.
HandlerRecv ==
    /\ handler.pc = "looping"
    /\ \/ /\ chan # <<>>
          /\ Head(chan).type = "TextDelta"
          /\ chan' = Tail(chan)
          /\ \/ UNCHANGED <<handler, active_streams>>
             \/ /\ handler.overflow < MaxOverflow
                /\ LET new == handler.cancel_msg_id + 1
                       moved == \E e \in active_streams : e.msg = handler.cancel_msg_id
                   IN  /\ active_streams' =
                             MovedCancelEmoji(active_streams, handler.cancel_msg_id, new)
                       /\ handler' = [handler EXCEPT
                                        !.overflow = @ + 1,
                                        !.cancel_msg_id = IF moved THEN new ELSE @]
       \/ /\ chan # <<>>
          /\ Head(chan).type \in {"Done", "Error"}
          /\ chan' = Tail(chan)
          /\ handler' = [handler EXCEPT !.pc = "unregistering"]
          /\ UNCHANGED active_streams
       \/ /\ chan = <<>>
          /\ ~TxOpen
          /\ handler' = [handler EXCEPT !.pc = "unregistering"]
          /\ UNCHANGED <<chan, active_streams>>
    /\ UNCHANGED <<task, sent, rx_open, cancelled, abort_called, react>>
    /\ UNCHANGED <<vdbVars, embVars, impVars, memVars>>

\* unregister_stream, lines 284-293.
HandlerUnregister ==
    /\ handler.pc = "unregistering"
    /\ active_streams' = {e \in active_streams : e.msg # handler.cancel_msg_id}
    /\ handler' = [handler EXCEPT !.pc = "finalizing"]
    /\ UNCHANGED <<task, sent, chan, rx_open, cancelled, abort_called, react>>
    /\ UNCHANGED <<vdbVars, embVars, impVars, memVars>>

\* Lines 377-409: a cancelled stream is finalized at once; otherwise the
\* task is awaited. The Receiver is dropped when message returns.
HandlerFinalize ==
    /\ handler.pc = "finalizing"
    /\ cancelled \/ task.pc \in {"ok", "err", "aborted"}
    /\ handler' = [handler EXCEPT !.pc = "done"]
    /\ rx_open' = FALSE
    /\ chan' = <<>>
    /\ UNCHANGED <<task, sent, active_streams, cancelled, abort_called, react>>
    /\ UNCHANGED <<vdbVars, embVars, impVars, memVars>>

\* A variant of MayCancel that lets every user cancel.
MayCancelAnyone(user_id, ctrl) == TRUE

\* reaction_add, lines 426-435: is_admin || user_id == ctrl.requester_id
MayCancel(user_id, ctrl) == user_id = "owner" \/ user_id = ctrl.requester_id

\* reaction_add, lines 413-446: a cancel reaction of user u on message mid.
\* The bot's own reaction is ignored; without an entry under mid nothing
\* happens; a user who may not cancel has the reaction deleted; otherwise
\* the entry is removed under the lock.
ReactionAdd(u, mid) ==
    /\ u \notin react.cancelling
    /\ LET found == {e \in active_streams : e.msg = mid}
       IN  IF u = "bot"
             THEN /\ react' = [react EXCEPT !.user = u, !.result = "ignored"]
                  /\ UNCHANGED active_streams
             ELSE IF found = {}
               THEN /\ react' = [react EXCEPT !.user = u, !.result = "no_stream"]
                    /\ UNCHANGED active_streams
               ELSE IF ~MayCancel(u, CHOOSE e \in found : TRUE)
                 THEN /\ react' = [react EXCEPT !.user = u, !.result = "denied"]
                      /\ UNCHANGED active_streams
                 ELSE /\ react' = [user |-> u, result |-> "removed",
                                   cancelling |-> react.cancelling \cup {u}]
                      /\ active_streams' = active_streams \ found
    /\ UNCHANGED <<task, sent, chan, rx_open, handler, cancelled, abort_called>>
    /\ UNCHANGED <<vdbVars, embVars, impVars, memVars>>

\* reaction_add, lines 448-449: the lock released, the flag is set and the
\* task aborted.
ReactionCancel(u) ==
    /\ u \in react.cancelling
    /\ cancelled' = TRUE
    /\ abort_called' = TRUE
    /\ react' = [user |-> u, result |-> "cancelled",
                 cancelling |-> react.cancelling \ {u}]
    /\ UNCHANGED <<task, sent, chan, rx_open, handler, active_streams>>
    /\ UNCHANGED <<vdbVars, embVars, impVars, memVars>>

\* interaction_create, lines 470-522: /cancelall by the owner removes and
\* cancels every stream of the channel; anyone else is refused.
CancelAll(u) ==
    /\ u # "bot"
    /\ IF u # "owner"
         THEN /\ react' = [react EXCEPT !.user = u, !.result = "refused"]
              /\ UNCHANGED <<active_streams, cancelled, abort_called>>
         ELSE /\ react' = [react EXCEPT !.user = u, !.result = "cancelled_all"]
              /\ active_streams' = {}
              /\ cancelled' = (cancelled \/ active_streams # {})
              /\ abort_called' = (abort_called \/ active_streams # {})
    /\ UNCHANGED <<task, sent, chan, rx_open, handler>>
    /\ UNCHANGED <<vdbVars, embVars, impVars, memVars>>

\* AbortHandle::abort: the task is dropped at one of its await points; until
\* then it goes on.
TaskAbort ==
    /\ abort_called
    /\ task.pc \in {"context", "streaming", "add_turn"}
    /\ task' = [task EXCEPT !.pc = "aborted"]
    /\ UNCHANGED <<sent, chan, rx_open, handler, active_streams, cancelled,
                   abort_called, react>>
    /\ UNCHANGED <<vdbVars, embVars, impVars, memVars>>

\* process_streaming, line 249: self.memory.get_context(user_input).await?
ProcessGetContext ==
    /\ task.pc = "context"
    /\ \/ task' = [task EXCEPT !.pc = "streaming"]
       \/ task' = [task EXCEPT !.pc = "err"]
    /\ UNCHANGED <<sent, chan, rx_open, handler, active_streams, cancelled,
                   abort_called, react>>
    /\ UNCHANGED <<vdbVars, embVars, impVars, memVars>>

\* run_stream, lines 199-206: a text item is appended to the response and
\* sent as a TextDelta.
RunStreamText ==
    /\ task.pc = "streaming"
    /\ task.items < MaxItems
    /\ \E delta \in Deltas :
         /\ task' = [task EXCEPT !.items = @ + 1, !.response_text = @ \o delta]
         /\ SendAll(<<TextDelta(delta)>>)
    /\ UNCHANGED <<rx_open, handler, active_streams, cancelled, abort_called, react>>
    /\ UNCHANGED <<vdbVars, embVars, impVars, memVars>>

\* str::strip_prefix
StripPrefix(s, prefix) ==
    IF Len(prefix) <= Len(s) /\ SubSeq(s, 1, Len(prefix)) = prefix
      THEN [some |-> TRUE, rest |-> SubSeq(s, Len(prefix) + 1, Len(s))]
      ELSE [some |-> FALSE, rest |-> <<>>]

\* run_stream, lines 208-215: what a final response adds to the deltas sent
\* so far.
FinalDeltas(response_text, final_text) ==
    IF response_text = <<>>
      THEN <<TextDelta(final_text)>>
      ELSE LET remaining == StripPrefix(final_text, response_text)
           IN  IF remaining.some /\ remaining.rest # <<>>
                 THEN <<TextDelta(remaining.rest)>>
                 ELSE <<>>

\* run_stream, lines 207-217: a final response.
RunStreamFinal ==
    /\ task.pc = "streaming"
    /\ task.items < MaxItems
    /\ \E final_text \in FinalTexts :
         /\ task' = [task EXCEPT !.items = @ + 1, !.response_text = final_text]
         /\ SendAll(FinalDeltas(task.response_text, final_text))
    /\ UNCHANGED <<rx_open, handler, active_streams, cancelled, abort_called, react>>
    /\ UNCHANGED <<vdbVars, embVars, impVars, memVars>>

\* run_stream, line 222: any other item is skipped.
RunStreamOther ==
    /\ task.pc = "streaming"
    /\ task.items < MaxItems
    /\ task' = [task EXCEPT !.items = @ + 1]
    /\ UNCHANGED <<sent, chan, rx_open, handler, active_streams, cancelled,
                   abort_called, react>>
    /\ UNCHANGED <<vdbVars, embVars, impVars, memVars>>

\* A variant of AfterStream that goes on to add_turn whatever run_stream
\* returned.
AfterStreamAlways(result) == "add_turn"

\* process_streaming, lines 281-299: stream_prompt(...).await? returns the
\* error of run_stream; add_turn follows an Ok.
AfterStream(result) == IF result = "ok" THEN "add_turn" ELSE "err"

\* run_stream, lines 218-221: an error item is sent as Error and returned.
RunStreamError ==
    /\ task.pc = "streaming"
    /\ task' = [task EXCEPT !.pc = AfterStream("err"), !.stream_result = "err"]
    /\ SendAll(<<[type |-> "Error", text |-> <<>>]>>)
    /\ UNCHANGED <<rx_open, handler, active_streams, cancelled, abort_called, react>>
    /\ UNCHANGED <<vdbVars, embVars, impVars, memVars>>

\* A variant of EventsOnEnd that sends nothing when the stream ends.
EventsOnEndNone == <<>>

\* run_stream, line 226: tx.send(StreamEvent::Done)
EventsOnEnd == <<[type |-> "Done", text |-> <<>>]>>

\* run_stream, lines 198 and 226-227: the stream has ended.
RunStreamDone ==
    /\ task.pc = "streaming"
    /\ task' = [task EXCEPT !.pc = AfterStream("ok"), !.stream_result = "ok"]
    /\ SendAll(EventsOnEnd)
    /\ UNCHANGED <<rx_open, handler, active_streams, cancelled, abort_called, react>>
    /\ UNCHANGED <<vdbVars, embVars, impVars, memVars>>

\* The caller of VectorDb::add_turn that process_streaming is.
Agent == 1

\* process_streaming, line 299: self.memory.add_turn(...) is entered.
ProcessAddTurn ==
    /\ task.pc = "add_turn"
    /\ outcome[Agent].status = "none"
    /\ AddTurnStart(Agent)

\* process_streaming, lines 299-306: add_turn(...).await? has returned.
ProcessReturn ==
    /\ task.pc = "add_turn"
    /\ outcome[Agent].status \in {"ok", "err"}
    /\ task' = [task EXCEPT !.pc = outcome[Agent].status]
    /\ UNCHANGED <<sent, chan, rx_open, handler, active_streams, cancelled,
                   abort_called, react>>
    /\ UNCHANGED <<vdbVars, embVars, impVars, memVars>>

\* ------------------------------------------------------- LocalEmbedding
\* EmbeddingModel::MultilingualE5Small produces vectors of 384 components.
MODEL_DIM == 384

\* const LOCAL_DIM
LOCAL_DIM == 384

\* fn dimensions(&self)
dimensions == LOCAL_DIM

\* `len` is the length of the vector an Ok result carries.
IdleEmbed == [pc |-> "idle", kind |-> "none", cold |-> FALSE, result |-> "none",
              len |-> 0]

\* The call returns: its result is kept until the caller's next call. An Ok
\* result is the first vector the model produced.
Returned(e, result) ==
    [pc |-> "idle", kind |-> e.kind, cold |-> e.cold, result |-> result,
     len |-> IF result = "ok" THEN MODEL_DIM ELSE 0]

\* LocalEmbedding::new: no model, last_used = Instant::now(); the unload task
\* is spawned and enters its first sleep.
InitEmb ==
    /\ model = "Unloaded"
    /\ model_lock = 0
    /\ last_used = 0
    /\ time = 0
    /\ emb = [c \in Embedders |-> IdleEmbed]
    /\ timer = [pc |-> "sleeping", wake_at |-> POLL_INTERVAL]
    /\ loads = 0
    /\ unloads = 0
    /\ last_ok = 0 - 1

Init == InitVdb /\ InitEmb /\ InitImportant /\ InitMem /\ InitStream

\* Time passes.
TimeTick ==
    /\ time < MaxTime
    /\ time' = time + TimeStep
    /\ UNCHANGED <<model, model_lock, last_used, emb, timer, loads, unloads, last_ok>>
    /\ UNCHANGED <<vdbVars, impVars, memVars, strmVars>>

\* embed_passage / embed_query are called: the text is tagged and the
\* blocking task is spawned; it has not taken the model lock yet.
EmbedCall(c, kind) ==
    /\ emb[c].pc = "idle"
    /\ emb' = [emb EXCEPT ![c] = [pc |-> "waiting", kind |-> kind,
                                  cold |-> (model = "Unloaded"), result |-> "none",
                                  len |-> 0]]
    /\ UNCHANGED <<model, model_lock, last_used, time, timer, loads, unloads, last_ok>>
    /\ UNCHANGED <<vdbVars, impVars, memVars, strmVars>>

EmbedPassage(c) == EmbedCall(c, "passage")

EmbedQuery(c) == EmbedCall(c, "query")

\* model.lock()
EmbedLock(c) ==
    /\ emb[c].pc = "waiting"
    /\ model_lock = 0
    /\ model_lock' = c
    /\ emb' = [emb EXCEPT ![c].pc = "locked"]
    /\ UNCHANGED <<model, last_used, time, timer, loads, unloads, last_ok>>
    /\ UNCHANGED <<vdbVars, impVars, memVars, strmVars>>

\* A variant of NeedsLoad that initialises the model on every call.
NeedsLoadAlways == TRUE

\* ensure_loaded: model.is_none()
NeedsLoad == model = "Unloaded"

\* A variant of LoadedModel in which ensure_loaded drops the model it built.
LoadedModelDropped == "Unloaded"

\* *model = Some(TextEmbedding::try_new(...)?)
LoadedModel == "Ready"

\* A variant of ModelAfterInitFailure in which a failed initialisation
\* leaves a model behind.
ModelAfterInitFailureReady == "Ready"

\* try_new(...).context(...)? returns before the assignment to *model.
ModelAfterInitFailure == model

\* ensure_loaded(&mut guard)?, then last_used = Instant::now().
EnsureLoaded(c) ==
    /\ emb[c].pc = "locked"
    /\ IF NeedsLoad
         THEN \/ /\ model' = LoadedModel
                 /\ loads' = loads + 1
                 /\ last_used' = time
                 /\ emb' = [emb EXCEPT ![c].pc = "loaded"]
                 /\ UNCHANGED model_lock
              \/ /\ emb' = [emb EXCEPT ![c] = Returned(@, "init_failed")]
                 /\ model_lock' = 0
                 /\ model' = ModelAfterInitFailure
                 /\ UNCHANGED <<loads, last_used>>
         ELSE /\ last_used' = time
              /\ emb' = [emb EXCEPT ![c].pc = "loaded"]
              /\ UNCHANGED <<model, loads, model_lock>>
    /\ UNCHANGED <<time, timer, unloads, last_ok>>
    /\ UNCHANGED <<vdbVars, impVars, memVars, strmVars>>

\* guard.embed(vec![text]); the guard is dropped when the task returns.
Embed(c) ==
    /\ emb[c].pc = "loaded"
    /\ model_lock' = 0
    /\ \/ /\ emb' = [emb EXCEPT ![c] = Returned(@, "ok")]
          /\ last_ok' = last_used
       \/ /\ emb' = [emb EXCEPT ![c] = Returned(@, "embed_failed")]
          /\ UNCHANGED last_ok
    /\ UNCHANGED <<model, last_used, time, timer, loads, unloads>>
    /\ UNCHANGED <<vdbVars, impVars, memVars, strmVars>>

\* The unload task wakes from sleep(60), reads last_used.elapsed() and drops
\* the last_used lock.
TimerWake ==
    /\ timer.pc = "sleeping"
    /\ time >= timer.wake_at
    /\ LET elapsed == time - last_used
       IN  IF elapsed >= IDLE_TIMEOUT
             THEN timer' = [timer EXCEPT !.pc = "unloading"]
             ELSE timer' = [timer EXCEPT !.wake_at = time + POLL_INTERVAL]
    /\ UNCHANGED <<model, model_lock, last_used, time, emb, loads, unloads, last_ok>>
    /\ UNCHANGED <<vdbVars, impVars, memVars, strmVars>>

\* The unload task takes the model lock and drops the model if there is one.
TimerUnload ==
    /\ timer.pc = "unloading"
    /\ model_lock = 0
    /\ IF model = "Ready"
         THEN /\ model' = "Unloaded"
              /\ unloads' = unloads + 1
         ELSE UNCHANGED <<model, unloads>>
    /\ timer' = [pc |-> "sleeping", wake_at |-> time + POLL_INTERVAL]
    /\ UNCHANGED <<model_lock, last_used, time, emb, loads, last_ok>>
    /\ UNCHANGED <<vdbVars, impVars, memVars, strmVars>>

NextEmbed ==
    \/ TimeTick
    \/ \E c \in Embedders : EmbedPassage(c)
    \/ \E c \in Embedders : EmbedQuery(c)
    \/ \E c \in Embedders : EmbedLock(c)
    \/ \E c \in Embedders : EnsureLoaded(c)
    \/ \E c \in Embedders : Embed(c)
    \/ TimerWake
    \/ TimerUnload

SpecEmbed == Init /\ [][NextEmbed]_vars

\* ------------------------------------------------- properties: add_turn
\* The calls that are inside the index section (lines 103-112).
InIndexSection(p) == call[p].pc \in {"locked", "reserved", "added", "saving"}

\* The row call p inserted: the one with its row identity and its public id.
OwnRow(p) == {r \in rows : r.rowid = call[p].rowid /\ r.id = call[p].id}

\* A step of the running process that changes the index, its capacity or
\* its file.
IndexStep ==
    /\ proc = "running"
    /\ proc' = "running"
    /\ <<index, capacity, index_file>>' # <<index, capacity, index_file>>

\* C1: within an add_turn call the store insert comes strictly before any
\* index operation: a call is in the index section only once its insert has
\* returned the identity of its own row, every change of the index, its
\* capacity or its file is made by such a call holding the lock, an added
\* entry is keyed by the identity the insert returned, and the step in which
\* the insert fails leaves index, capacity and index file as they were and
\* ends the call.
C1_StoreBeforeIndex ==
    [][/\ \A p \in Callers :
             InIndexSection(p)' => Cardinality(OwnRow(p)') = 1
       /\ IndexStep =>
             \E p \in Callers :
                /\ lock = p
                /\ Cardinality(OwnRow(p)) = 1
                /\ index' \in {index, index \cup {[key |-> call[p].rowid,
                                                   vec |-> call[p].vec]}}
       /\ \A p \in Callers :
             (call[p].pc = "embedded" /\ outcome'[p].status = "err")
                => /\ <<index, capacity, index_file>>' = <<index, capacity, index_file>>
                   /\ call'[p].pc = "idle"
                   /\ outcome'[p].step = "insert"]_vars

\* C1 witness: a call's insert failed while the index already held an entry
\* and the index file a snapshot.
C1_Witness ==
    \E p \in Callers :
       /\ outcome[p].status = "err"
       /\ outcome[p].step = "insert"
       /\ index # {}
       /\ index_file.state = "ok"

\* C2: when the insert succeeded and a later index step (reserve, add, save)
\* failed, add_turn has returned an error and the row it inserted is still
\* in the table.
C2_RowSurvivesIndexFailure ==
    \A p \in Callers :
       (outcome[p].status = "err" /\ outcome[p].step \in {"reserve", "add", "save"})
          => /\ outcome[p].rowid # 0
             /\ Cardinality({r \in rows : r.rowid = outcome[p].rowid}) = 1

\* C2 witness: an add_turn failed at the index add, its row is stored and
\* the index lacks it.
C2_Witness ==
    \E p \in Callers :
       /\ outcome[p].status = "err"
       /\ outcome[p].step = "add"
       /\ outcome[p].rowid \in Rowids
       /\ outcome[p].rowid \notin Keys(index)

\* C3: every key of the index is the row identity of exactly one row, and
\* no two index entries share a key.
C3_KeysResolve ==
    /\ \A e \in index : Cardinality({r \in rows : r.rowid = e.key}) = 1
    /\ \A e1, e2 \in index : e1.key = e2.key => e1 = e2

\* C3 witness: two calls were in flight together and the index holds the
\* keys of two rows, added in the order opposite to their public ids.
C3_Witness ==
    /\ Cardinality(index) >= 2
    /\ \E r1, r2 \in rows :
          /\ r1.rowid < r2.rowid
          /\ r1.id > r2.id
          /\ {r1.rowid, r2.rowid} \subseteq Keys(index)

\* C7: size() <= capacity() in every state, and within one process capacity
\* never decreases.
C7_SizeWithinCapacity ==
    /\ Size <= capacity
    /\ [][/\ Size' <= capacity'
          /\ (proc = "running" /\ proc' = "running") => capacity' >= capacity]_vars

\* C7 witness: after a restart loaded a full index (capacity = size), an
\* add_turn grew the capacity and added its entry.
C7_Witness ==
    /\ epoch > 0
    /\ proc = "running"
    /\ capacity > INITIAL_CAPACITY
    /\ Size >= 2

\* The entries the next start would load from the index file.
Loadable == IF index_file.state = "ok" THEN index_file.entries ELSE {}

\* C8: after a crash at any point, the middle of the index save included,
\* the index file read at the next start holds the entry of every add_turn
\* that had completed.
C8_CrashKeepsCompleted ==
    proc = "down" => completed \subseteq Keys(Loadable)

\* ------------------------------------------------- properties: retrieval
\* The rows the table held when the recency window was read.
SeenRows == {r \in rows : r.rowid <= ctx.total}

\* The indexed turns outside the recency window, other than t, that are at
\* least as similar to the query as t.
Rivals(t) ==
    {r \in rows : /\ r.rowid \in Keys(index)
                  /\ r.rowid # t.rowid
                  /\ r.id \notin Ids(ctx.recent)
                  /\ Distance(r.vec, ctx.query) <= Distance(t.vec, ctx.query)}

\* C4: a turn inserted by an add_turn that completed before the request,
\* outside the recency window and ranked among the top_k most similar
\* indexed turns outside that window, is in the related result.
C4_MatchIsReturned ==
    [][(ctx.pc = "recent" /\ ctx'.pc = "done") =>
          \A t \in rows :
             (/\ t.rowid \in ctx.before
              /\ t.rowid \in Keys(index)
              /\ t.id \notin Ids(ctx.recent)
              /\ Cardinality(Rivals(t)) < ctx.top_k)
                => t.id \in Ids(ctx'.related)]_vars

\* C5: no turn id is in both the recent list and the related list of one
\* context request.
C5_RecentRelatedDisjoint ==
    ctx.pc = "done" => Ids(ctx.recent) \cap Ids(ctx.related) = {}

\* C5 witness: the index returned a turn of the recency window and a turn
\* inserted after the window was read; the related list is not empty.
C5_Witness ==
    /\ ctx.pc = "done"
    /\ ctx.related # <<>>
    /\ \E r \in rows : r.rowid \in ctx.fetched /\ r.id \in Ids(ctx.recent)
    /\ \E r \in rows : r.rowid \in ctx.fetched /\ r.rowid > ctx.total

\* C6: recent_turns(N) returns min(N, total) distinct stored turns, in
\* ascending timestamp order, and no turn left out is newer than a turn
\* returned.
C6_RecentWindow ==
    ctx.pc # "idle" =>
       LET w == ctx.recent
       IN  /\ Len(w) = Min(ctx.n, ctx.total)
           /\ \A i \in 1..Len(w) : \E r \in SeenRows : ToTurn(r) = w[i]
           /\ \A i, j \in 1..Len(w) : i # j => w[i].id # w[j].id
           /\ \A i, j \in 1..Len(w) :
                 i < j => w[i].timestamp_micros <= w[j].timestamp_micros
           /\ \A r \in SeenRows : \A i \in 1..Len(w) :
                 r.id \notin Ids(w) => r.timestamp_us <= w[i].timestamp_micros

\* C6 witness: three turns stored, a window of two with distinct
\* timestamps, a turn no newer than the window left out.
C6_Witness ==
    /\ ctx.pc = "recent"
    /\ ctx.total = 3
    /\ Len(ctx.recent) = 2
    /\ ctx.recent[1].timestamp_micros < ctx.recent[2].timestamp_micros
    /\ \E r \in SeenRows : /\ r.id \notin Ids(ctx.recent)
                            /\ r.timestamp_us <= ctx.recent[1].timestamp_micros

\* ------------------------------------------------ properties: embeddings
\* The embed calls that hold the model lock.
InModelSection == {c \in Embedders : emb[c].pc \in {"locked", "loaded"}}

\* C9: the model is initialised only when it is Unloaded, so between two
\* unloads it is loaded exactly once (loads = unloads, plus one while it is
\* Ready); the calls that load or use it hold the lock one at a time.
C9_LoadedOnce ==
    /\ loads = unloads + (IF model = "Ready" THEN 1 ELSE 0)
    /\ Cardinality(InModelSection) <= 1
    /\ \A c \in InModelSection : model_lock = c

\* C9 witness: two calls started while the model was Unloaded, both
\* returned a vector, and the model was loaded once.
C9_Witness ==
    /\ \A c \in Embedders : emb[c].cold /\ emb[c].result = "ok"
    /\ loads = 1
    /\ unloads = 0

\* C10: the timer unloads the model only when, at that moment, the last
\* successful embed is at least IDLE_TIMEOUT old.
C10_UnloadOnlyWhenIdle ==
    [][(model = "Ready" /\ model' = "Unloaded")
          => (last_ok >= 0 => time - last_ok >= IDLE_TIMEOUT)]_vars

\* C11: an embed_query that finds the model Unloaded after an idle unload
\* and whose initialisation succeeds reloads it (model Ready, one more
\* load); an embed call that returns Ok leaves the model Ready and returns a
\* vector of dimensions() components.
C11_ReloadAfterUnload ==
    [][\A c \in Embedders :
          /\ (/\ emb[c].pc = "locked"
              /\ emb[c].kind = "query"
              /\ model = "Unloaded"
              /\ unloads >= 1
              /\ emb'[c].pc = "loaded")
                => (model' = "Ready" /\ loads' = loads + 1 /\ model_lock' = c)
          /\ (emb[c].pc = "loaded" /\ emb'[c].result = "ok")
                => (/\ model' = "Ready"
                    /\ emb'[c].len = dimensions
                    /\ emb'[c].pc = "idle")]_vars

\* C11 witness: the only caller loaded the model, the timer unloaded it, and
\* the caller's embed_query, made while it was Unloaded, loaded it again and
\* returned a vector of dimensions() components.
C11_Witness ==
    /\ \E c \in Embedders :
          /\ emb[c] = [pc |-> "idle", kind |-> "query", cold |-> TRUE,
                       result |-> "ok", len |-> dimensions]
          /\ \A d \in Embedders \ {c} : emb[d] = IdleEmbed
    /\ loads = 2
    /\ unloads = 1
    /\ model = "Ready"

\* The model lock, when held, is held by a call that has not returned.
LockHeldByCall == model_lock # 0 => emb[model_lock].pc \in {"locked", "loaded"}

\* C12: a failed embed call fails only that call. The step in which the
\* initialisation fails leaves the model Unloaded, so the next call attempts
\* the load again; the step in which the inference fails leaves the model
\* Ready; both release the model lock and touch nothing else of the
\* provider, and the lock is never held by a call that has returned.
C12_FailureIsPerCall ==
    /\ LockHeldByCall
    /\ [][/\ LockHeldByCall'
          /\ \A c \in Embedders :
             /\ (emb[c].pc # "idle" /\ emb'[c].result = "init_failed")
                   => (/\ model = "Unloaded" /\ model' = "Unloaded"
                       /\ NeedsLoad'
                       /\ model_lock' = 0
                       /\ UNCHANGED <<last_used, timer, loads, unloads, last_ok>>
                       /\ \A d \in Embedders \ {c} : emb'[d] = emb[d])
             /\ (emb[c].pc # "idle" /\ emb'[c].result = "embed_failed")
                   => (/\ model = "Ready" /\ model' = "Ready"
                       /\ model_lock' = 0
                       /\ UNCHANGED <<last_used, timer, loads, unloads, last_ok>>
                       /\ \A d \in Embedders \ {c} : emb'[d] = emb[d])]_vars

\* C12 witness: one call failed in the initialisation while the model had
\* never been loaded; the other call then loaded it and returned a vector.
C12_Witness ==
    /\ \E c, d \in Embedders :
          /\ emb[c].pc = "idle" /\ emb[c].result = "init_failed"
          /\ emb[d].pc = "idle" /\ emb[d].result = "ok"
    /\ loads = 1
    /\ unloads = 0
    /\ model = "Ready"
    /\ model_lock = 0

\* ------------------------------------------- properties: conversation rows
\* The row identity of the stored turn with public id `id`.
RowidOf(id) == (CHOOSE r \in rows : r.id = id).rowid

\* C16: of any two conversation rows the one inserted earlier (lower row
\* identity) has a timestamp no greater than the other's, and recent_turns
\* lists rows of equal timestamp in insertion order.
C16_TimestampsFollowInsertion ==
    /\ \A r1, r2 \in rows :
          r1.rowid < r2.rowid => r1.timestamp_us <= r2.timestamp_us
    /\ \A w \in RecentTurns(MaxN) :
          \A i, j \in 1..Len(w) :
             (i < j /\ w[i].timestamp_micros = w[j].timestamp_micros)
                => RowidOf(w[i].id) < RowidOf(w[j].id)

\* Public ids and row identities are unique among the conversation rows, and
\* a call in flight has at most one row.
RowsUnique ==
    /\ \A r1, r2 \in rows : (r1.id = r2.id \/ r1.rowid = r2.rowid) => r1 = r2
    /\ \A p \in Callers : Cardinality({r \in rows : r.id = call[p].id}) <= 1

\* C17: every step leaves the conversation rows it found as they are; a
\* step adds at most one row, it is the insert step of an add_turn call,
\* and the row carries that call's public id, which no stored row has; a
\* call inserts once, and public ids and row identities are unique.
C17_RowsCreatedOnceNeverChanged ==
    /\ RowsUnique
    /\ [][/\ RowsUnique'
          /\ rows \subseteq rows'
          /\ Cardinality(rows' \ rows) <= 1
          /\ \A r \in rows' \ rows :
                /\ \A old \in rows : old.id # r.id /\ old.rowid # r.rowid
                /\ \E p \in Callers :
                      /\ call[p].pc = "embedded"
                      /\ call'[p].pc = "inserted"
                      /\ r.id = call[p].id]_vars

\* C17 witness: add_turn has added a turn to the two the store held, a
\* search has returned turns, and an important entry was added and deleted.
C17_Witness ==
    /\ Cardinality(rows) = Cardinality(StoredRows) + 1
    /\ StoredRows \subseteq rows
    /\ \E p \in Callers : outcome[p].status = "ok"
    /\ \E c \in Tools :
          /\ tool[c].pc = "idle" /\ tool[c].op = "delete"
          /\ tool[c].status = "ok" /\ tool[c].found

\* C18: add_turn returns Ok only from the save, with its row stored, its
\* entry in the index and in the saved snapshot; every other way out of a
\* call is an error returned to the caller, which ends the call (no retry);
\* and the step in which the embedding fails leaves the table, the index,
\* its capacity and the index file as they were, the call having stored no
\* row and added no entry before.
C18_OkOnlyAfterAllSteps ==
    [][\A p \in Callers :
        /\ (proc' = "running" /\ outcome'[p] # outcome[p]
               /\ outcome'[p].status = "err") => call'[p] = IdleCall
        /\ (proc = "running" /\ proc' = "running" /\ call[p].pc # "idle"
              /\ call'[p].pc = "idle") =>
             /\ outcome'[p].status \in {"ok", "err"}
             /\ call'[p] = IdleCall
             /\ outcome'[p].status = "ok" =>
                   /\ call[p].pc = "saving"
                   /\ \E r \in rows' : r.rowid = call[p].rowid /\ r.id = call[p].id
                   /\ call[p].rowid \in Keys(index')
                   /\ index_file'.state = "ok"
                   /\ call[p].rowid \in Keys(index_file'.entries)
             /\ (outcome'[p].status = "err" /\ outcome'[p].step = "embed") =>
                   /\ call[p].pc = "embedding"
                   /\ <<rows, index, capacity, index_file>>'
                         = <<rows, index, capacity, index_file>>
                   /\ \A r \in rows : r.id # call[p].id
                   /\ call[p].rowid \notin Keys(index)
             /\ (call[p].pc = "embedding") =>
                   (outcome'[p].status = "err" /\ outcome'[p].step = "embed")]_vars

\* C18 witness: one call returned Ok and its entry is indexed and saved;
\* the other failed in the embedding and stored nothing.
C18_Witness ==
    /\ proc = "running"
    /\ \E p, q \in Callers :
          /\ outcome[p].status = "ok"
          /\ outcome[p].rowid \in Keys(index)
          /\ outcome[p].rowid \in Keys(index_file.entries)
          /\ outcome[q].status = "err"
          /\ outcome[q].step = "embed"
    /\ Cardinality(rows) = 1

\* The owners of the index mutex: add_turn calls between index.lock() and
\* the end of the closure, and searches between index.lock() and the end of
\* the search block.
Holders ==
    {p \in Callers : InIndexSection(p)}
        \cup {ToolLock(c) : c \in {d \in Tools : tool[d].pc = "search_locked"}}

\* At most one owner, and the lock says who it is.
OneHolder ==
    /\ Cardinality(Holders) <= 1
    /\ \A h \in Holders : lock = h
    /\ lock # 0 => lock \in Holders

\* C19: index operations are mutually exclusive. At most one add_turn call
\* or search is in its index section and it holds the lock; the index, its
\* capacity and its file change only in steps of the add_turn call that
\* holds the lock; from a call's add to the end of its save no step changes
\* the index, so the snapshot a save writes is the index right after that
\* call's add; a search reads the index while it holds the lock.
C19_IndexMutualExclusion ==
    /\ OneHolder
    /\ [][/\ OneHolder'
          /\ <<index, capacity, index_file>>' # <<index, capacity, index_file>>
                => \E p \in Callers :
                      /\ lock = p
                      /\ InIndexSection(p)
                      /\ call'[p] # call[p]
          /\ \A p \in Callers :
                /\ call[p].pc \in {"added", "saving"} => index' = index
                /\ (call[p].pc = "saving" /\ outcome'[p].status = "ok") =>
                      /\ index_file' = [state |-> "ok", entries |-> index]
                      /\ call[p].rowid \in Keys(index)
          /\ \A c \in Tools :
                (tool[c].pc = "search_locked" /\ tool'[c].pc = "resolving") =>
                   /\ lock = ToolLock(c)
                   /\ \A p \in Callers : ~InIndexSection(p)
                   /\ tool'[c].fetched \subseteq Keys(index)]_vars

\* C19 witness: a search holds the lock over an index that has an entry
\* while an add_turn call, its row inserted, waits for the lock.
C19_Witness ==
    /\ \E c \in Tools : tool[c].pc = "search_locked" /\ lock = ToolLock(c)
    /\ \E p \in Callers : call[p].pc = "inserted"
    /\ index # {}

\* ------------------------------------------- properties: important facts
\* The stored entries whose normalized content is that of s.
SameContent(table, s) == {r \in table : Normalize(r.content) = Normalize(s)}

\* C13: no two stored important entries are duplicates of each other under
\* the dedup rule (equal normalized contents, or both longer than 10
\* characters and one containing the other).
C13_NoDuplicateEntries ==
    \A r1, r2 \in important :
        r1 # r2 => ~IsDuplicate(Normalize(r1.content), Normalize(r2.content))

\* C14: when exactly one entry is stored for a content, inserting a content
\* that differs from it only in letter case or surrounding whitespace leaves
\* exactly one stored entry for that content.
C14_CaseVariantStoredOnce ==
    [][\A c \in Tools :
          (/\ tool[c].pc = "adding"
           /\ tool'[c].pc = "idle"
           /\ tool'[c].status = "ok"
           /\ Cardinality(SameContent(important, tool[c].content)) = 1
           /\ \A r \in SameContent(important, tool[c].content) :
                 r.content # tool[c].content)
             => Cardinality(SameContent(important', tool[c].content)) = 1]_vars

\* The positions of a token in an assembled context.
Positions(text, token) == {i \in 1..Len(text) : text[i] = token}

\* An assembled context against the three sources it was made from.
ContextWellFormed(t) ==
    LET imp == Positions(t.text, IMPORTANT_HEADER)
        rec == Positions(t.text, RECENT_HEADER)
        rel == Positions(t.text, RELATED_HEADER)
        bul == Positions(t.text, "- ")
    IN  /\ Cardinality(imp) = (IF t.entries # <<>> THEN 1 ELSE 0)
        /\ Cardinality(rec) = (IF t.recent # <<>> THEN 1 ELSE 0)
        /\ Cardinality(rel) = (IF t.related # <<>> THEN 1 ELSE 0)
        /\ \A i \in imp : \A j \in rec \cup rel : i < j
        /\ \A j \in rec : \A k \in rel : j < k
        /\ Cardinality(bul) = Len(t.entries)
        /\ \A b \in bul : (\A i \in imp : i < b) /\ (\A j \in rec \cup rel : b < j)
        /\ \A i, j \in 1..Len(t.entries) :
              i < j => t.entries[i].timestamp_micros <= t.entries[j].timestamp_micros
        /\ (t.entries = <<>> /\ t.recent = <<>> /\ t.related = <<>>) => t.text = <<>>
        /\ t.text # <<>> => t.text[1] \in {IMPORTANT_HEADER, RECENT_HEADER, RELATED_HEADER}

C20_EmptyContext ==
    \E c \in Tools : tool[c].op = "context" /\ tool[c].text = <<>> /\ now > 0

ImportantIdsUnique == \A r1, r2 \in important : r1.id = r2.id => r1 = r2

\* C15: a delete_important(id) that returns Ok returns true exactly when an
\* entry with that public id was stored, and then removes that entry and no
\* other; for an id that is not stored it returns false and leaves the
\* entries as they were; a call that fails on the store changes nothing;
\* public ids are unique among the entries.
C15_DeleteReportsExistence ==
    /\ ImportantIdsUnique
    /\ [][/\ ImportantIdsUnique'
          /\ \A c \in Tools :
             (tool[c].pc = "deleting" /\ tool'[c].pc = "idle") =>
                LET hit == {r \in important : r.id = tool[c].id}
                IN  /\ tool'[c].status = "ok" =>
                          /\ tool'[c].found = (hit # {})
                          /\ important' = important \ hit
                          /\ Cardinality(hit) <= 1
                    /\ tool'[c].status = "err" => important' = important
                    /\ hit = {} => important' = important]_vars

\* C15 witness: a delete returned Ok(true) and left another entry stored.
C15_Witness ==
    \E c \in Tools :
        /\ tool[c].pc = "idle"
        /\ tool[c].op = "delete"
        /\ tool[c].status = "ok"
        /\ tool[c].found
        /\ \A r \in important : r.id # tool[c].id
        /\ important # {}

\* ------------------------------------------------ properties: index growth
\* C21: the capacity check runs before every index add: the step from the
\* lock to the add raises capacity by exactly RESERVE_INCREMENT when
\* size + 1 >= capacity and leaves it alone otherwise; an add or save that
\* fails afterwards leaves the capacity as it is; and size < capacity right
\* after every add.
C21_CapacityCheckBeforeAdd ==
    [][\A p \in Callers :
          /\ (call[p].pc = "locked" /\ call'[p].pc = "reserved") =>
                capacity' = (IF Size + 1 >= capacity
                               THEN capacity + RESERVE_INCREMENT
                               ELSE capacity)
          /\ (call[p].pc = "locked" /\ call'[p].pc = "idle" /\ proc' = "running") =>
                /\ Size + 1 >= capacity
                /\ capacity' = capacity
                /\ outcome'[p].status = "err"
          /\ (call[p].pc # "added" /\ call'[p].pc = "added") =>
                /\ call[p].pc = "reserved"
                /\ Size' = Size + 1
                /\ Size' < capacity'
          /\ (call[p].pc \in {"reserved", "added", "saving"} /\ proc' = "running") =>
                capacity' = capacity
          /\ (index' # index /\ proc = "running" /\ proc' = "running") =>
                \E q \in Callers : call[q].pc = "reserved" /\ call'[q].pc = "added"]_vars

\* C21 witness: a restart loaded an index of one entry (capacity 1), the
\* next add_turn raised the capacity to 1 + RESERVE_INCREMENT and added its
\* entry, its save failed, and the raise is still there.
C21_Witness ==
    /\ epoch > 0
    /\ proc = "running"
    /\ capacity = 1 + RESERVE_INCREMENT
    /\ Size = 2
    /\ \E p \in Callers : outcome[p].status = "err" /\ outcome[p].step = "save"

\* ----------------------------------------------- properties: search_turns
\* The indexed turns whose public id is outside the recency window.
Eligible == {r \in rows : r.rowid \in Keys(index) /\ r.id \notin Ids(ctx.recent)}

C23_AtMostTopKAscending ==
    [][\A c \in Tools :
          (tool[c].pc = "resolving" /\ tool'[c].status = "ok") =>
             LET out == tool'[c].related
             IN  /\ Len(out) <= tool[c].top_k
                 /\ \A i, j \in 1..Len(out) :
                       i < j => out[i].timestamp_micros <= out[j].timestamp_micros
                 /\ Ids(out) \cap tool[c].exclude = {}]_vars

\* C23 witness: out of an index of three entries a search returned two
\* turns of different topics, the older one first.
C23_Witness ==
    \E c \in Tools :
       /\ tool[c].op = "search"
       /\ tool[c].status = "ok"
       /\ Len(tool[c].related) = 2
       /\ tool[c].related[1].timestamp_micros < tool[c].related[2].timestamp_micros
       /\ Cardinality(index) = 3
       /\ \E r1, r2 \in rows :
             /\ r1.id = tool[c].related[1].id
             /\ r2.id = tool[c].related[2].id
             /\ r2.vec # r1.vec

\* ------------------------------------------- properties: unindexed turns
\* The stored turns whose add_turn returned an error from the index reserve
\* or the index add: the rows no call is working on that the index lacks,
\* and the row of the last call while its outcome says so.
Unindexed ==
    {r \in rows :
        \/ /\ r.rowid \notin Keys(index)
           /\ \A p \in Callers : call[p].rowid # r.rowid
        \/ \E p \in Callers : /\ outcome[p].status = "err"
                              /\ outcome[p].step \in {"reserve", "add"}
                              /\ outcome[p].rowid = r.rowid}

\* Row r is among the n newest whatever order rows of equal timestamp take.
AmongNewest(r, n) ==
    Cardinality({s \in rows : s # r /\ s.timestamp_us >= r.timestamp_us}) < n

\* C25: a turn whose row is stored and whose index insertion failed is
\* returned by recent_turns(n) while it is among the n newest turns, is
\* never returned by search_turns, and leaves the steps of a later add_turn
\* able to succeed: the row identity of the call is new to the index and the
\* index has room for it.
C25_UnindexedTurnIsHarmless ==
    [][/\ (ctx.pc = "idle" /\ ctx'.pc = "recent") =>
             \A r \in Unindexed : AmongNewest(r, ctx'.n) => r.id \in Ids(ctx'.recent)
       /\ (ctx.pc = "recent" /\ ctx'.pc = "done") =>
             \A r \in Unindexed : r.id \notin Ids(ctx'.related)
       /\ \A p \in Callers :
             (Unindexed # {} /\ call'[p].pc = "reserved") =>
                /\ call'[p].rowid \notin Keys(index')
                /\ Size' < capacity'
                /\ \A r \in Unindexed : r.rowid # call'[p].rowid]_vars

\* C25 witness: the second of three turns failed at the index add; a later
\* add_turn returned Ok, and a context request has the failed turn in its
\* recency window and another turn as related.
C25_Witness ==
    /\ ctx.pc = "done"
    /\ ctx.related # <<>>
    /\ \E r \in rows :
          /\ r.rowid \notin Keys(index)
          /\ r.id \in Ids(ctx.recent)
          /\ \E k \in completed : k > r.rowid
          /\ \E k \in completed : k < r.rowid

\* ------------------------------------------- properties: MemoryManager
\* The content an entry of the long-term list was stored with.
EntryContent(entry) == SubSeq(entry, 5, Len(entry))

\* The content is a duplicate of an entry of the list: equal after trimming
\* and lowercasing, or both longer than MIN_DEDUP_LEN and one inside the other.
DuplicateOfExisting(lt, content) ==
    \E i \in 1..Len(lt) :
        IsDuplicate(Normalize(EntryContent(lt[i])), Normalize(content))

\* C24: add_to_long_term with a content that is a duplicate of an existing
\* entry returns Ok and leaves the in-memory list and the file memory.md
\* exactly as they were.
C24_DuplicateChangesNothing ==
    [][\A m \in MemCallers :
          (/\ mem[m].pc = "lt_locked"
           /\ mem'[m].pc = "idle"
           /\ DuplicateOfExisting(mem_long_term, mem[m].content))
             => /\ mem'[m].status = "ok"
                /\ mem_long_term' = mem_long_term
                /\ memory_md' = memory_md]_vars

\* C24 witness: both callers' add_to_long_term returned Ok and the list
\* holds one entry, the one memory.md holds: one of the two was skipped.
C24_Witness ==
    /\ \A m \in MemCallers : mem[m].op = "add_to_long_term" /\ mem[m].status = "ok"
    /\ Len(mem_long_term) = 1
    /\ memory_md = JoinEntries(mem_long_term)

\* The callers that hold a lock the call of m is waiting for.
WaitsOn(m) ==
    CASE mem[m].pc \in {"gc_recent", "fl_saved"} ->
            {long_term_lock.writer} \ {0, m}
      [] mem[m].pc = "cm_long_term" ->
            (recent_lock.readers \cup {recent_lock.writer}) \ {0, m}
      [] OTHER -> {}

\* C26: no two MemoryManager calls wait on each other: no call waits for a
\* lock held by a call that waits for a lock the first one holds.
C26_NoMutualWait ==
    \A a, b \in MemCallers : ~(b \in WaitsOn(a) /\ a \in WaitsOn(b))

\* C27: when add_message or compress_memory returns, every message that
\* left the recent list during the call is in an archive file, and when the
\* call returns the error of its archive step every message the list held
\* before the call is still in the list.
C27_ArchivedBeforeLeaving ==
    [][\A m \in MemCallers :
          (/\ mem[m].op \in {"add_message", "compress_memory"}
           /\ mem[m].pc \notin {"idle", "cm_long_term"}
           /\ mem'[m].pc = "idle")
             => /\ (Range(mem[m].before) \ Range(mem_recent')) \subseteq Archived'
                /\ (mem[m].pc \in {"am_archiving", "cm_locked"} /\ mem'[m].status = "err")
                      => Range(mem[m].before) \subseteq Range(mem_recent')]_vars

\* ------------------------------------------------------- specifications
Next ==
    \/ Tick
    \/ \E p \in Callers : AddTurnStart(p)
    \/ \E p \in Callers : AddTurnEmbed(p)
    \/ \E p \in Callers : AddTurnInsert(p)
    \/ \E p \in Callers : AddTurnLock(p)
    \/ \E p \in Callers : AddTurnReserve(p)
    \/ \E p \in Callers : AddTurnAdd(p)
    \/ \E p \in Callers : AddTurnSaveOpen(p)
    \/ \E p \in Callers : AddTurnSaveWrite(p)
    \/ Crash
    \/ New

Spec == Init /\ [][Next]_vars

\* The retrieval specification runs one writer beside the context request.
Writers == {1}

NextCtx ==
    \/ Tick
    \/ \E p \in Writers : AddTurnStart(p)
    \/ \E p \in Writers : AddTurnEmbed(p)
    \/ \E p \in Writers : AddTurnInsert(p)
    \/ \E p \in Writers : AddTurnLock(p)
    \/ \E p \in Writers : AddTurnReserve(p)
    \/ \E p \in Writers : AddTurnAdd(p)
    \/ \E p \in Writers : AddTurnSaveOpen(p)
    \/ \E p \in Writers : AddTurnSaveWrite(p)
    \/ CtxRecent
    \/ CtxSearch
    \/ CtxReturn

SpecCtx == Init /\ [][NextCtx]_vars

\* The important-fact specification: the tools and get_context beside one
\* writer, over a store that already holds turns.
NextImportant ==
    \/ Tick
    \/ \E p \in Writers : AddTurnStart(p)
    \/ \E p \in Writers : AddTurnEmbed(p)
    \/ \E p \in Writers : AddTurnInsert(p)
    \/ \E p \in Writers : AddTurnLock(p)
    \/ \E p \in Writers : AddTurnReserve(p)
    \/ \E p \in Writers : AddTurnAdd(p)
    \/ \E p \in Writers : AddTurnSaveOpen(p)
    \/ \E p \in Writers : AddTurnSaveWrite(p)
    \/ \E c \in Tools : AddImportantCall(c)
    \/ \E c \in Tools : AddImportantInsert(c)
    \/ \E c \in Tools : DeleteImportantCall(c)
    \/ \E c \in Tools : DeleteImportantExec(c)
    \/ \E c \in Tools : ListImportantCall(c)
    \/ \E c \in Tools : SearchMemoryCall(c)
    \/ \E c \in Tools : SearchLock(c)
    \/ \E c \in Tools : SearchIndex(c)
    \/ \E c \in Tools : SearchResolve(c)

\* The state after construction over a data directory that holds turns.
InitWithTurns == InitStored /\ InitEmb /\ InitImportant /\ InitMem /\ InitStream

SpecImportant == InitWithTurns /\ [][NextImportant]_vars

\* The context specification: get_context beside the important-fact tools,
\* over a fresh data directory or one that holds stored turns.
NextContext ==
    \/ Tick
    \/ \E c \in Tools : AddImportantCall(c)
    \/ \E c \in Tools : AddImportantInsert(c)
    \/ \E c \in Tools : DeleteImportantCall(c)
    \/ \E c \in Tools : DeleteImportantExec(c)
    \/ \E c \in Tools : GetContext(c)

\* The state after construction over a fresh or a used data directory.
InitAnyStore == (InitVdb \/ InitStored) /\ InitEmb /\ InitImportant /\ InitMem /\ InitStream

SpecContext == InitAnyStore /\ [][NextContext]_vars

\* The search specification: search_turns with any top_k and exclusion set
\* beside one add_turn writer, over a data directory that holds turns.
NextSearch ==
    \/ Tick
    \/ \E p \in Writers : AddTurnStart(p)
    \/ \E p \in Writers : AddTurnEmbed(p)
    \/ \E p \in Writers : AddTurnInsert(p)
    \/ \E p \in Writers : AddTurnLock(p)
    \/ \E p \in Writers : AddTurnReserve(p)
    \/ \E p \in Writers : AddTurnAdd(p)
    \/ \E p \in Writers : AddTurnSaveOpen(p)
    \/ \E p \in Writers : AddTurnSaveWrite(p)
    \/ \E c \in Tools : SearchTurnsCall(c)
    \/ \E c \in Tools : SearchLock(c)
    \/ \E c \in Tools : SearchIndex(c)
    \/ \E c \in Tools : SearchResolve(c)

SpecSearch == InitWithTurns /\ [][NextSearch]_vars

\* The MemoryManager specification: concurrent calls of its five
\* operations, over an empty data directory or one with a full recent list.
InitMemory ==
    InitVdb /\ InitEmb /\ InitImportant /\ (InitMem \/ InitMemFull) /\ InitStream

NextMemory ==
    \/ \E m \in MemCallers : AddMessageLock(m)
    \/ \E m \in MemCallers : AddMessagePush(m)
    \/ \E m \in MemCallers : AddMessageArchive(m)
    \/ \E m \in MemCallers : AddMessageSave(m)
    \/ \E m \in MemCallers : GetContextRecentRead(m)
    \/ \E m \in MemCallers : GetContextLongTermRead(m)
    \/ \E m \in MemCallers : GetContextReturn(m)
    \/ \E m \in MemCallers : CompressLockLongTerm(m)
    \/ \E m \in MemCallers : CompressLockRecent(m)
    \/ \E m \in MemCallers : CompressArchive(m)
    \/ \E m \in MemCallers : CompressSaveLongTerm(m)
    \/ \E m \in MemCallers : CompressSaveRecent(m)
    \/ \E m \in MemCallers : AddToLongTermLock(m)
    \/ \E m \in MemCallers : AddToLongTermExec(m)
    \/ \E m \in MemCallers : FlushRecentRead(m)
    \/ \E m \in MemCallers : FlushSaveRecent(m)
    \/ \E m \in MemCallers : FlushLongTermRead(m)
    \/ \E m \in MemCallers : FlushSaveLongTerm(m)

SpecMemory == InitMemory /\ [][NextMemory]_vars

\* The stream specification: one user message, its agent task with the
\* add_turn at its end, and the cancel reactions of every user.
NextStream ==
    \/ HandlerMessage
    \/ HandlerReply
    \/ HandlerRegister
    \/ HandlerRecv
    \/ HandlerUnregister
    \/ HandlerFinalize
    \/ \E u \in Users, mid \in MessageIds : ReactionAdd(u, mid)
    \/ \E u \in Users : ReactionCancel(u)
    \/ \E u \in Users : CancelAll(u)
    \/ TaskAbort
    \/ ProcessGetContext
    \/ RunStreamText
    \/ RunStreamFinal
    \/ RunStreamOther
    \/ RunStreamError
    \/ RunStreamDone
    \/ ProcessAddTurn
    \/ AddTurnEmbed(Agent)
    \/ AddTurnInsert(Agent)
    \/ AddTurnLock(Agent)
    \/ AddTurnReserve(Agent)
    \/ AddTurnAdd(Agent)
    \/ AddTurnSaveOpen(Agent)
    \/ AddTurnSaveWrite(Agent)
    \/ ProcessReturn

SpecStream == Init /\ [][NextStream]_vars

\* The index specification: two add_turn callers beside a search.
NextIndex ==
    \/ \E p \in Callers : AddTurnStart(p)
    \/ \E p \in Callers : AddTurnEmbed(p)
    \/ \E p \in Callers : AddTurnInsert(p)
    \/ \E p \in Callers : AddTurnLock(p)
    \/ \E p \in Callers : AddTurnReserve(p)
    \/ \E p \in Callers : AddTurnAdd(p)
    \/ \E p \in Callers : AddTurnSaveOpen(p)
    \/ \E p \in Callers : AddTurnSaveWrite(p)
    \/ \E c \in Tools : SearchMemoryCall(c)
    \/ \E c \in Tools : SearchLock(c)
    \/ \E c \in Tools : SearchIndex(c)
    \/ \E c \in Tools : SearchResolve(c)

SpecIndex == Init /\ [][NextIndex]_vars

\* ------------------------------------------ properties: response streams
\* The last event run_stream sent has the given type.
LastSent(type) == sent # <<>> /\ sent[Len(sent)].type = type

\* C28: in process_streaming the model call starts only after get_context
\* has returned; add_turn is entered at most once, and only after run_stream
\* returned Ok with Done as its last event; the RecordStore and the index
\* change only after that; and once the stream has yielded an error,
\* process_streaming has returned an error and no turn is in the RecordStore,
\* the index or its file.
C28_AddTurnOnlyAfterCleanStream ==
    [][ /\ (task'.pc = "streaming" /\ task.pc # "streaming") => task.pc = "context"
        /\ uuid' <= 1
        /\ uuid' # uuid =>
              /\ task.pc = "add_turn"
              /\ task.stream_result = "ok"
              /\ LastSent("Done")
              /\ uuid = 0
        /\ (rows' # rows \/ index' # index \/ index_file' # index_file) =>
              /\ task.stream_result = "ok"
              /\ uuid = 1
        /\ task'.stream_result = "err" =>
              /\ task'.pc = "err"
              /\ LastSent("Error")'
              /\ uuid' = 0
              /\ rows' = {}
              /\ index' = {}
              /\ index_file'.entries = {}
      ]_vars

\* C28 witness: after two deltas and Done the one add_turn has written its
\* turn to the RecordStore and the index, and process_streaming returned Ok.
C28_Witness ==
    /\ task.pc = "ok"
    /\ Len(sent) = 3
    /\ LastSent("Done")
    /\ uuid = 1
    /\ Cardinality(rows) = 1
    /\ Size = 1

\* The positions of the terminal events among those run_stream sent.
Terminals == {i \in 1..Len(sent) : sent[i].type \in {"Done", "Error"}}

\* C29: run_stream sends at most one terminal event and nothing after it; it
\* has returned Ok exactly when its last event is Done and returned an error
\* exactly when its last event is Error, so that every run that returns has
\* sent exactly one terminal event.
C29_OneTerminalEvent ==
    /\ Cardinality(Terminals) <= 1
    /\ \A i \in Terminals : i = Len(sent)
    /\ task.stream_result = "ok" <=> LastSent("Done")
    /\ task.stream_result = "err" <=> LastSent("Error")
    /\ task.stream_result # "none" => Cardinality(Terminals) = 1

\* C29 witness: a text item, then a final response that extends it, then the
\* end of the stream: two deltas and Done, and run_stream returned Ok.
C29_Witness ==
    /\ task.stream_result = "ok"
    /\ Len(sent) = 3
    /\ sent[1] = TextDelta(<<"a">>)
    /\ sent[2] = TextDelta(<<"b">>)
    /\ sent[3].type = "Done"
    /\ task.response_text = <<"a", "b">>

\* The stream of the user message has been registered.
Registered == handler.pc \in {"looping", "unregistering", "finalizing", "done"}
                 /\ handler.cancel_msg_id # 0

\* The users who may cancel a stream entry.
Cancellers(streams) == {"owner"} \cup {e.requester_id : e \in streams}

\* C30: a cancel reaction removes a stream's entry, sets its cancelled flag
\* and aborts its task only for the requester or the owner; a reaction or
\* command of any other user leaves active_streams, the flag and the task as
\* they were; and the entry of a stream, once registered, is re-keyed or
\* removed but never comes back after its removal, whether a cancellation
\* or unregister_stream removed it.
C30_OnlyRequesterOrOwnerCancels ==
    /\ active_streams = {}
    /\ [][ /\ (react' # react /\ react'.result = "removed") =>
                 /\ react'.user \in Cancellers(active_streams)
                 /\ active_streams # {}
           /\ (react' # react /\ react'.user \notin {"owner", "requester"}) =>
                 UNCHANGED <<active_streams, cancelled, abort_called, task>>
           /\ cancelled' # cancelled =>
                 /\ cancelled'
                 /\ react'.result \in {"cancelled", "cancelled_all"}
                 /\ react'.user \in {"owner", "requester"}
           /\ Cardinality(active_streams') <= 1
           /\ (Registered /\ active_streams = {}) => active_streams' = {}
           /\ (Registered /\ active_streams' # active_streams /\ active_streams' # {}) =>
                 /\ active_streams' = {[e EXCEPT !.msg = handler'.cancel_msg_id] :
                                          e \in active_streams}
                 /\ react' = react
         ]_vars

\* C30 witness: the stream moved to an overflow message, the requester's
\* reaction on it removed the entry and cancelled the task, and
\* unregister_stream then found no entry to remove.
C30_Witness ==
    /\ handler.pc = "done"
    /\ handler.overflow = 1
    /\ handler.cancel_msg_id = 2
    /\ react.user = "requester"
    /\ react.result = "cancelled"
    /\ cancelled
    /\ task.pc = "aborted"
    /\ active_streams = {}

=============================================================================
